---------------------------- MODULE Spec2Model ----------------------------
(***************************************************************************)
(* A model of epui (src/ui.py, src/util.py, src/resources.py,             *)
(* src/charts.py):                                                         *)
(*   - Context: the debounced redraw scheduler and its life cycle,         *)
(*   - Group / VGroup / HGroup: the measure and draw passes of the layout, *)
(*   - overlay: key-colour compositing of a child buffer onto its parent,  *)
(*   - Surface: children of one colour drawn by a Group onto its canvas,   *)
(*   - ChartsView: the axis strips and the body rectangle of a chart,      *)
(*   - TrendChartsView: the mapping of a data series to pixels.            *)
(* Each part has its own specification over its own variables; the other   *)
(* variables stay at their initial values.                                 *)
(***************************************************************************)
EXTENDS Integers, Sequences, FiniteSets, TLC

VARIABLES
    \* ---- Context (src/ui.py:24-90) ----
    status,            \* Context.__status
    requests,          \* Context.__requests
    redraw_listener,   \* Context.__redraw_listener is set
    panic_handler,     \* Context.__panic_handler is set
    started,           \* Thread.start() was called on Context.__event_loop
    pcLoop,            \* position of the event loop thread in __start_event_loop
    current_requests,  \* the loop's local current_requests
    exc,               \* the exception the loop's try block raised, or "none"
    handler_arg,       \* the exception last passed to the panic handler
    pcReq,             \* per thread calling request_redraw(): "idle" | "loaded"
    regReq,            \* per such thread: the value of __requests it loaded
    calls,             \* number of request_redraw() calls begun so far
    pcMain,            \* position of the thread calling destroy()
    pcExt,             \* a thread calling redraw_once() directly: "idle" | "drawing"
    burst,             \* history: where the latest burst of invalidations stands
    burstCalls,        \* history: number of calls in that burst
    redrawsAfter,      \* history: loop redraws invoked since that burst closed
    \* ---- a Group, VGroup or HGroup and its children (src/ui.py:187-379) ----
    group,             \* the class of the group: "Group" | "VGroup" | "HGroup"
    alignment,         \* VGroup/HGroup.__alignment ("NONE" for a Group)
    actual_size,       \* the group's own actual_measurement.size
    children,          \* Group.__children, in insertion order
    pcLayout,          \* "built" | "measured" | "raised": outcome of measure();
                       \* "drawn" | "draw_raised": outcome of draw();
                       \* "redrawn" | "redraw_raised": of redraw_once()
    draws,             \* number of children whose draw() the last draw() invoked
    group_prefer,      \* the group's own preferred_measurement
    canvas_size,       \* Context.canvas_size: the actual size of the root group
    content,           \* what the group's content_size() last returned
    \* ---- one call of overlay (src/ui.py:408-417) ----
    background,        \* the parent's image
    foreground,        \* the child's buffer
    overlay_position,  \* where the buffer goes on the parent's image
    background0,       \* history: the parent's image before the call
    pcOverlay,         \* "ready" | "done" | "raised": outcome of overlay();
                       \* "again_done" | "again_raised": of a second call
    \* ---- a ChartsView being drawn (src/charts.py:53-181) ----
    chart_configuration, \* ChartsView.__configuration: the two axes
    chart_size,        \* the view's actual_measurement.size
    chart_scale,       \* the scale draw() is given
    chart_axis,        \* the strips and the body __draw_axis computed
    pcChart,           \* "ready" | "drawn"
    \* ---- a TrendChartsView drawing its body (src/charts.py:383-472) ----
    trend_data,        \* TrendChartsView.__data
    trend_bounds,      \* the bounds draw_body() is given
    trend_type,        \* TrendChartsView.__line_type
    axis_range,        \* min and max of the configuration's two axes
    trend_result,      \* what the drawing function drew and returned
    pcTrend,           \* "ready" | "drawn" | "raised"
    data_sets          \* number of set_data() calls so far

ctxVars == <<status, requests, redraw_listener, panic_handler, started, pcLoop,
             current_requests, exc, handler_arg, pcReq, regReq, calls, pcMain,
             pcExt, burst, burstCalls, redrawsAfter>>

layVars == <<group, alignment, actual_size, children, pcLayout, draws,
             group_prefer, canvas_size, content>>

ovlVars == <<background, foreground, overlay_position, background0, pcOverlay>>

chartVars == <<chart_configuration, chart_size, chart_scale, chart_axis, pcChart>>

trendVars == <<trend_data, trend_bounds, trend_type, axis_range, trend_result,
               pcTrend, data_sets>>

vars == <<ctxVars, layVars, ovlVars, chartVars, trendVars>>

-----------------------------------------------------------------------------
(* Bounds *)

\* request_redraw() is called at most MaxCalls times in one behaviour
MaxCalls == 3

\* the images overlay is given are at most MaxSide pixels wide
MaxSide == 2

\* a chart is drawn at a scale of 1 to MaxScale
MaxScale == 2

\* a series of equal values has at most MaxPoints points
MaxPoints == 10

\* any other series has at most MaxSeries points
MaxSeries == 3

\* set_data() is called at most MaxSets times on a trend chart
MaxSets == 1

\* a group holds at most MaxChildren children
MaxChildren == 3

\* the threads that call request_redraw() (View.invalidate from any thread)
Requesters == {"r1", "r2"}

-----------------------------------------------------------------------------
(* Context *)

EventLoopStatus == {"NOT_LOADED", "RUNNING", "STOPPED"}

Exceptions == {"draw_error", "listener_error"}

\* the loop thread has left __start_event_loop (normally or by an exception)
LoopEnded == pcLoop \in {"exited", "crashed"}

\* no request_redraw() call is between its load and its store
AllIdle == \A t \in Requesters : pcReq[t] = "idle"

InitContext ==
    /\ status = "NOT_LOADED"
    /\ requests = 0
    /\ redraw_listener = FALSE
    /\ panic_handler = FALSE
    /\ started = FALSE
    /\ pcLoop = "unstarted"
    /\ current_requests = 0
    /\ exc = "none"
    /\ handler_arg = "none"
    /\ pcReq = [t \in Requesters |-> "idle"]
    /\ regReq = [t \in Requesters |-> 0]
    /\ calls = 0
    /\ pcMain = "idle"
    /\ pcExt = "idle"
    /\ burst = "out"
    /\ burstCalls = 0
    /\ redrawsAfter = 0

\* Context.on_redraw
on_redraw(l) ==
    /\ redraw_listener' = l
    /\ UNCHANGED <<status, requests, panic_handler, started, pcLoop,
                   current_requests, exc, handler_arg, pcReq, regReq, calls,
                   pcMain, pcExt, burst, burstCalls, redrawsAfter>>
    /\ UNCHANGED <<layVars, ovlVars, chartVars, trendVars>>

\* Context.set_panic_handler
set_panic_handler(h) ==
    /\ panic_handler' = h
    /\ UNCHANGED <<status, requests, redraw_listener, started, pcLoop,
                   current_requests, exc, handler_arg, pcReq, regReq, calls,
                   pcMain, pcExt, burst, burstCalls, redrawsAfter>>
    /\ UNCHANGED <<layVars, ovlVars, chartVars, trendVars>>

\* Context.start: starts the event loop thread (a second start() raises in
\* threading.Thread and starts nothing)
start ==
    /\ ~started
    /\ started' = TRUE
    /\ pcLoop' = "L49"
    /\ UNCHANGED <<status, requests, redraw_listener, panic_handler,
                   current_requests, exc, handler_arg, pcReq, regReq, calls,
                   pcMain, pcExt, burst, burstCalls, redrawsAfter>>
    /\ UNCHANGED <<layVars, ovlVars, chartVars, trendVars>>

(* request_redraw: self.__requests += 1 is a load followed by a store.  The
   history variable burst follows the calls: "open" while every call in
   progress or completed since the loop read the counter (line 52) began
   inside the current debounce sleep (line 54), "closed" once the loop has
   re-checked the counter (line 55) with all of them completed, "out" when a
   call began or ended outside such a window. *)
request_redraw_load(t) ==
    /\ pcReq[t] = "idle"
    /\ calls < MaxCalls
    /\ calls' = calls + 1
    /\ regReq' = [regReq EXCEPT ![t] = requests]
    /\ pcReq' = [pcReq EXCEPT ![t] = "loaded"]
    /\ burst' = IF pcLoop = "L54" /\ (burst = "open" \/ AllIdle)
                THEN "open" ELSE "out"
    /\ burstCalls' = IF burst' = "open"
                     THEN (IF burst = "open" THEN burstCalls + 1 ELSE 1)
                     ELSE 0
    /\ UNCHANGED <<status, requests, redraw_listener, panic_handler, started,
                   pcLoop, current_requests, exc, handler_arg, pcMain, pcExt,
                   redrawsAfter>>
    /\ UNCHANGED <<layVars, ovlVars, chartVars, trendVars>>

request_redraw_store(t) ==
    /\ pcReq[t] = "loaded"
    /\ requests' = regReq[t] + 1
    /\ pcReq' = [pcReq EXCEPT ![t] = "idle"]
    /\ UNCHANGED <<status, redraw_listener, panic_handler, started, pcLoop,
                   current_requests, exc, handler_arg, regReq, calls, pcMain,
                   pcExt, burst, burstCalls, redrawsAfter>>
    /\ UNCHANGED <<layVars, ovlVars, chartVars, trendVars>>

loopFrame == <<redraw_listener, panic_handler, started, pcReq, regReq, calls,
               pcMain, pcExt, layVars, ovlVars, chartVars,
               trendVars>>

\* line 49: self.__status = EventLoopStatus.RUNNING
loop_set_running ==
    /\ pcLoop = "L49"
    /\ status' = "RUNNING"
    /\ pcLoop' = "L50"
    /\ UNCHANGED <<requests, current_requests, exc, handler_arg, burst, burstCalls,
                   redrawsAfter>>
    /\ UNCHANGED loopFrame

\* line 50: while self.__status == EventLoopStatus.RUNNING
loop_while ==
    /\ pcLoop = "L50"
    /\ pcLoop' = IF status = "RUNNING" THEN "L52" ELSE "exited"
    /\ UNCHANGED <<status, requests, current_requests, exc, handler_arg, burst, burstCalls,
                   redrawsAfter>>
    /\ UNCHANGED loopFrame

\* lines 52-53: current_requests = self.__requests; if current_requests > 0
loop_poll ==
    /\ pcLoop = "L52"
    /\ current_requests' = requests
    /\ pcLoop' = IF requests > 0 THEN "L54" ELSE "L60"
    /\ UNCHANGED <<status, requests, exc, handler_arg, burst, burstCalls, redrawsAfter>>
    /\ UNCHANGED loopFrame

\* mutant of loop_recheck: the redraw goes ahead whatever the counter says
loop_recheck_always ==
    /\ pcLoop = "L54"
    /\ pcLoop' = "L56"
    /\ burst' = IF burst = "open"
                THEN (IF AllIdle THEN "closed" ELSE "out")
                ELSE burst
    /\ burstCalls' = IF burst' = "out" THEN 0 ELSE burstCalls
    /\ redrawsAfter' = IF burst = "open" THEN 0 ELSE redrawsAfter
    /\ UNCHANGED <<status, requests, current_requests, exc, handler_arg>>
    /\ UNCHANGED loopFrame

\* lines 54-55: sleep(RELOAD_AWAIT); if current_requests == self.__requests
loop_recheck ==
    /\ pcLoop = "L54"
    /\ pcLoop' = IF current_requests = requests THEN "L56" ELSE "L60"
    /\ burst' = IF burst = "open"
                THEN (IF AllIdle THEN "closed" ELSE "out")
                ELSE burst
    /\ burstCalls' = IF burst' = "out" THEN 0 ELSE burstCalls
    /\ redrawsAfter' = IF burst = "open" THEN 0 ELSE redrawsAfter
    /\ UNCHANGED <<status, requests, current_requests, exc, handler_arg>>
    /\ UNCHANGED loopFrame

\* mutant of loop_reset: the counter is not reset before the redraw
loop_reset_keeps ==
    /\ pcLoop = "L56"
    /\ pcLoop' = "L57"
    /\ UNCHANGED <<status, requests, current_requests, exc, handler_arg, burst,
                   burstCalls, redrawsAfter>>
    /\ UNCHANGED loopFrame

\* line 56: self.__requests = 0
loop_reset ==
    /\ pcLoop = "L56"
    /\ requests' = 0
    /\ pcLoop' = "L57"
    /\ UNCHANGED <<status, current_requests, exc, handler_arg, burst, burstCalls,
                   redrawsAfter>>
    /\ UNCHANGED loopFrame

\* line 57: self.redraw_once() is entered
loop_redraw_begin ==
    /\ pcLoop = "L57"
    /\ pcLoop' = "drawing"
    /\ redrawsAfter' = IF burst = "closed" /\ redrawsAfter < 2
                       THEN redrawsAfter + 1 ELSE redrawsAfter
    /\ UNCHANGED <<status, requests, current_requests, exc, handler_arg, burst, burstCalls>>
    /\ UNCHANGED loopFrame

\* mutant of loop_redraw_end: the counter is reset when the redraw returns
loop_redraw_end_resets ==
    /\ pcLoop = "drawing"
    /\ \/ pcLoop' = "L58" /\ exc' = exc /\ requests' = 0
       \/ pcLoop' = "L62" /\ exc' = "draw_error" /\ requests' = requests
    /\ UNCHANGED <<status, current_requests, handler_arg, burst, burstCalls,
                   redrawsAfter>>
    /\ UNCHANGED loopFrame

\* line 57: redraw_once() returns, or a view's draw raises
loop_redraw_end ==
    /\ pcLoop = "drawing"
    /\ \/ pcLoop' = "L58" /\ exc' = exc
       \/ pcLoop' = "L62" /\ exc' = "draw_error"
    /\ UNCHANGED <<status, requests, current_requests, handler_arg, burst, burstCalls,
                   redrawsAfter>>
    /\ UNCHANGED loopFrame

\* lines 58-59: if self.__redraw_listener: self.__redraw_listener()
loop_listener ==
    /\ pcLoop = "L58"
    /\ \/ pcLoop' = "L60" /\ exc' = exc
       \/ redraw_listener /\ pcLoop' = "L62" /\ exc' = "listener_error"
    /\ UNCHANGED <<status, requests, current_requests, handler_arg, burst, burstCalls,
                   redrawsAfter>>
    /\ UNCHANGED loopFrame

\* line 60: sleep(RELOAD_INTERVAL)
loop_sleep ==
    /\ pcLoop = "L60"
    /\ pcLoop' = "L50"
    /\ UNCHANGED <<status, requests, current_requests, exc, handler_arg, burst, burstCalls,
                   redrawsAfter>>
    /\ UNCHANGED loopFrame

\* mutant of loop_except: with no handler the exception is swallowed
loop_except_swallow ==
    /\ pcLoop = "L62"
    /\ IF panic_handler
       THEN pcLoop' = "L63" /\ handler_arg' = exc
       ELSE pcLoop' = "L50" /\ handler_arg' = handler_arg
    /\ UNCHANGED <<status, requests, current_requests, exc, burst, burstCalls,
                   redrawsAfter>>
    /\ UNCHANGED loopFrame

\* lines 61-65: except Exception as e: handler(e) if registered, else raise e
loop_except ==
    /\ pcLoop = "L62"
    /\ IF panic_handler
       THEN pcLoop' = "L63" /\ handler_arg' = exc
       ELSE pcLoop' = "crashed" /\ handler_arg' = handler_arg
    /\ UNCHANGED <<status, requests, current_requests, exc, burst, burstCalls, redrawsAfter>>
    /\ UNCHANGED loopFrame

\* mutant of loop_handler_return: the failed redraw is tried again
loop_handler_return_retries ==
    /\ pcLoop = "L63"
    /\ pcLoop' = IF exc = "draw_error" THEN "L57" ELSE "L50"
    /\ exc' = "none"
    /\ UNCHANGED <<status, requests, current_requests, handler_arg, burst, burstCalls,
                   redrawsAfter>>
    /\ UNCHANGED loopFrame

\* line 63: the panic handler returns; the while condition is tested next
loop_handler_return ==
    /\ pcLoop = "L63"
    /\ pcLoop' = "L50"
    /\ exc' = "none"
    /\ UNCHANGED <<status, requests, current_requests, handler_arg, burst, burstCalls,
                   redrawsAfter>>
    /\ UNCHANGED loopFrame

\* Context.__start_event_loop, one statement at a time
start_event_loop ==
    \/ loop_set_running
    \/ loop_while
    \/ loop_poll
    \/ loop_recheck
    \/ loop_reset
    \/ loop_redraw_begin
    \/ loop_redraw_end
    \/ loop_listener
    \/ loop_sleep
    \/ loop_except
    \/ loop_handler_return

mainFrame == <<requests, redraw_listener, panic_handler, started, pcLoop,
               current_requests, exc, handler_arg, pcReq, regReq, calls, pcExt,
               burst, burstCalls, redrawsAfter, layVars, ovlVars,
               chartVars, trendVars>>

\* destroy() is called (after start(): before it Thread.join itself raises)
destroy_call ==
    /\ started
    /\ pcMain \in {"idle", "returned", "raised"}
    /\ pcMain' = "L86"
    /\ UNCHANGED status
    /\ UNCHANGED mainFrame

\* mutant of destroy_check: the STOPPED status is not refused
destroy_check_unguarded ==
    /\ pcMain = "L86"
    /\ pcMain' = "L89"
    /\ UNCHANGED status
    /\ UNCHANGED mainFrame

\* lines 86-87: if self.__status == STOPPED: raise RuntimeError
destroy_check ==
    /\ pcMain = "L86"
    /\ pcMain' = IF status = "STOPPED" THEN "raised" ELSE "L89"
    /\ UNCHANGED status
    /\ UNCHANGED mainFrame

\* line 89: self.__status = EventLoopStatus.STOPPED
destroy_set_stopped ==
    /\ pcMain = "L89"
    /\ status' = "STOPPED"
    /\ pcMain' = "L90"
    /\ UNCHANGED mainFrame

\* mutant of destroy_join: destroy() returns without waiting for the thread
destroy_join_nowait ==
    /\ pcMain = "L90"
    /\ pcMain' = "returned"
    /\ UNCHANGED status
    /\ UNCHANGED mainFrame

\* line 90: self.__event_loop.join() returns once the loop thread has ended
destroy_join ==
    /\ pcMain = "L90"
    /\ LoopEnded
    /\ pcMain' = "returned"
    /\ UNCHANGED status
    /\ UNCHANGED mainFrame

\* Context.destroy, one statement at a time
destroy == destroy_check \/ destroy_set_stopped \/ destroy_join

\* Context.redraw_once called directly by another thread (src/main.test.py:34)
redraw_once_begin ==
    /\ pcExt = "idle"
    /\ pcExt' = "drawing"
    /\ UNCHANGED <<status, requests, redraw_listener, panic_handler, started,
                   pcLoop, current_requests, exc, handler_arg, pcReq, regReq,
                   calls, pcMain, burst, burstCalls, redrawsAfter>>
    /\ UNCHANGED <<layVars, ovlVars, chartVars, trendVars>>

redraw_once_end ==
    /\ pcExt = "drawing"
    /\ pcExt' = "idle"
    /\ UNCHANGED <<status, requests, redraw_listener, panic_handler, started,
                   pcLoop, current_requests, exc, handler_arg, pcReq, regReq,
                   calls, pcMain, burst, burstCalls, redrawsAfter>>
    /\ UNCHANGED <<layVars, ovlVars, chartVars, trendVars>>

-----------------------------------------------------------------------------
(* Measurements.  Lengths are whole pixels.  A Python tuple t is a sequence
   with t[0] at index 1, so a margin (top, right, bottom, left) has top at 1
   and left at 4. *)

\* class ViewSize(Enum)
MATCH_PARENT == [tag |-> "ViewSize", value |-> 1]

WRAP_CONTENT == [tag |-> "ViewSize", value |-> 2]

\* a numeric entry of a size pair: an int
Num(n) == [tag |-> "number", type |-> "int", value |-> n]

\* a numeric entry of a size pair: a float with a whole value
Real(n) == [tag |-> "number", type |-> "float", value |-> n]

\* a preferred size that is a pair (width, height)
Pair(w, h) == [tag |-> "tuple", w |-> w, h |-> h]

\* a preferred size that is one bare float f = num / den (a percentage)
Float(num, den) == [tag |-> "float", num |-> num, den |-> den]

\* x * f for a bare float f, defined where the product is a whole number
Times(x, f) == CASE (x * f.num) % f.den = 0 -> (x * f.num) \div f.den

ViewMeasurement(position, size, margin) ==
    [position |-> position, size |-> size, margin |-> margin]

\* View.content_size
View_content_size == <<64, 64>>

\* View.__init__: actual_measurement starts as the preferred one
View(prefer) ==
    [preferred_measurement |-> prefer, actual_measurement |-> prefer]

\* util.plus, util.subtract, util.is_positive, util.is_inside
plus(vector, option) == <<vector[1] + option[1], vector[2] + option[2]>>

subtract(vector, option) == <<vector[1] - option[1], vector[2] - option[2]>>

is_positive(vector) == vector[1] > 0 /\ vector[2] > 0

is_inside(parent, child) == child[1] <= parent[1] /\ child[2] <= parent[2]

\* size[0], size[1] raise TypeError unless the preferred size is a pair
Subscriptable(size) == size.tag = "tuple"

\* mutant of get_effective_size: MATCH_PARENT resolved like WRAP_CONTENT
get_effective_size_wrap(child, parent_size) ==
    LET size == child.preferred_measurement.size
        w == IF size.w.tag = "ViewSize" THEN View_content_size[1] ELSE size.w.value
        h == IF size.h.tag = "ViewSize" THEN View_content_size[2] ELSE size.h.value
    IN  <<w, h>>

\* child.content_size(): that of a plain View, or the one a group computed
content_of(child) ==
    IF "content" \in DOMAIN child THEN child.content ELSE View_content_size

\* get_effective_size (src/ui.py:382-392), for a preferred size that is a pair
get_effective_size(child, parent_size) ==
    LET size == child.preferred_measurement.size
        w == IF size.w = MATCH_PARENT THEN parent_size[1]
             ELSE IF size.w = WRAP_CONTENT THEN content_of(child)[1]
             ELSE size.w.value
        h == IF size.h = MATCH_PARENT THEN parent_size[2]
             ELSE IF size.h = WRAP_CONTENT THEN content_of(child)[2]
             ELSE size.h.value
    IN  <<w, h>>

\* Group.measure, the body of its loop for one child (src/ui.py:243-261)
Group_measure(child, parent_size) ==
    LET margin == child.preferred_measurement.margin
        position == plus(child.preferred_measurement.position,
                         <<margin[4], margin[1]>>)
        size == get_effective_size(child, parent_size)
        remaining_space == subtract(parent_size, position)
        far == subtract(parent_size, plus(size, <<margin[2], margin[3]>>))
        w == IF size[1] > parent_size[1] THEN parent_size[1] ELSE size[1]
        h == IF size[2] > parent_size[2] THEN parent_size[2] ELSE size[2]
    IN  IF ~is_positive(remaining_space)
        THEN IF ~is_positive(far)
             THEN ViewMeasurement(<<margin[4], margin[1]>>, <<w, h>>, margin)
             ELSE ViewMeasurement(far, size, margin)
        ELSE IF ~is_inside(remaining_space, size)
             THEN ViewMeasurement(position,
                      subtract(remaining_space, <<margin[2], margin[3]>>),
                      margin)
             ELSE ViewMeasurement(position, size, margin)

\* VGroup.measure lines 292-298: the size before clamping
VGroup_size(child, parent_size) ==
    LET size == child.preferred_measurement.size
    IN  IF size.tag = "float"
        THEN <<parent_size[1], Times(parent_size[2], size)>>
        ELSE get_effective_size(child, parent_size)

\* HGroup.measure lines 351-357: the size before clamping
HGroup_size(child, parent_size) ==
    LET size == child.preferred_measurement.size
    IN  IF size.tag = "float"
        THEN <<Times(parent_size[1], size), parent_size[2]>>
        ELSE get_effective_size(child, parent_size)

\* mutant of last_measure_bottom: the previous child's bottom margin is dropped
last_measure_bottom_no_margin(measures) ==
    IF Len(measures) > 0
    THEN LET last == measures[Len(measures)]
         IN  last.position[2] + last.size[2]
    ELSE 0

\* VGroup.measure lines 300-304
last_measure_bottom(measures) ==
    IF Len(measures) > 0
    THEN LET last == measures[Len(measures)]
         IN  last.position[2] + last.size[2] + last.margin[3]
    ELSE 0

\* HGroup.measure lines 359-363
last_measure_right(measures) ==
    IF Len(measures) > 0
    THEN LET last == measures[Len(measures)]
         IN  last.position[1] + last.size[1] + last.margin[2]
    ELSE 0

\* VGroup.measure, the body of its loop for one child (src/ui.py:292-320);
\* measures holds the measurements of the children before it
VGroup_measure(child, parent_size, align, measures) ==
    LET margin == child.preferred_measurement.margin
        size == VGroup_size(child, parent_size)
        bottom == last_measure_bottom(measures)
        w == IF size[1] + margin[2] + margin[4] > parent_size[1]
             THEN parent_size[1] - margin[2] - margin[4]
             ELSE size[1]
        h == IF size[2] + margin[1] + margin[3] > parent_size[2] - bottom
             THEN parent_size[2] - bottom - margin[1] - margin[3]
             ELSE size[2]
        position ==
            IF align = "LEFT" THEN <<margin[4], margin[1] + bottom>>
            ELSE IF align = "RIGHT"
                 THEN <<parent_size[1] - w - margin[4], margin[1] + bottom>>
                 ELSE <<(parent_size[1] - w) \div 2, margin[1] + bottom>>
    IN  ViewMeasurement(position, <<w, h>>, margin)

\* HGroup.measure, the body of its loop for one child (src/ui.py:351-379)
HGroup_measure(child, parent_size, align, measures) ==
    LET margin == child.preferred_measurement.margin
        size == HGroup_size(child, parent_size)
        right == last_measure_right(measures)
        w == IF size[1] + margin[2] + margin[4] > parent_size[1] - right
             THEN parent_size[1] - right - margin[2] - margin[4]
             ELSE size[1]
        h == IF size[2] + margin[1] + margin[3] > parent_size[2]
             THEN parent_size[2] - margin[1] - margin[3]
             ELSE size[2]
        position ==
            IF align = "TOP" THEN <<margin[4] + right, margin[1]>>
            ELSE IF align = "BOTTOM"
                 THEN <<margin[4] + right, parent_size[2] - h - margin[3]>>
                 ELSE <<margin[4] + right, (parent_size[2] - h) \div 2>>
    IN  ViewMeasurement(position, <<w, h>>, margin)

\* the child's preferred size makes measure() raise TypeError: Group.measure
\* subscripts it in get_effective_size, the stacks do unless it is a float
Raises(cls, child) ==
    LET size == child.preferred_measurement.size
    IN  IF cls = "Group"
        THEN ~Subscriptable(size)
        ELSE size.tag # "float" /\ ~Subscriptable(size)

\* the measurement one pass of the loop of measure() gives a child
measure_child(cls, child, parent_size, align, measures) ==
    IF cls = "Group" THEN Group_measure(child, parent_size)
    ELSE IF cls = "VGroup"
         THEN VGroup_measure(child, parent_size, align, measures)
         ELSE HGroup_measure(child, parent_size, align, measures)

\* the measurements measure() assigns, in order, to the first n children; the
\* loop ends at the first child that raises
RECURSIVE measures_of(_, _, _, _, _)
measures_of(cls, chs, parent_size, align, n) ==
    IF n = 0
    THEN <<>>
    ELSE LET before == measures_of(cls, chs, parent_size, align, n - 1)
         IN  IF Len(before) < n - 1 \/ Raises(cls, chs[n])
             THEN before
             ELSE Append(before,
                         measure_child(cls, chs[n], parent_size, align, before))

\* no content_size() call has been made
NoContent == [called |-> FALSE, raised |-> FALSE, size |-> <<0, 0>>]

\* the classes of group and the alignments each takes
GroupClasses ==
    {<<"Group", "NONE">>}
      \cup ({"VGroup"} \X {"LEFT", "CENTER", "RIGHT"})
      \cup ({"HGroup"} \X {"TOP", "CENTER", "BOTTOM"})

\* the actual sizes a group is given: an empty one and a square
ParentSizes == {<<0, 0>>, <<100, 100>>}

NoMargin == <<0, 0, 0, 0>>

\* ViewMeasurement.default(size=(n, n))
Square(n) == ViewMeasurement(<<0, 0>>, Pair(Num(n), Num(n)), NoMargin)

\* default(size=ViewSize.MATCH_PARENT)
Fill == ViewMeasurement(<<0, 0>>, Pair(MATCH_PARENT, MATCH_PARENT), NoMargin)

\* default(margin=10, width=ViewSize.MATCH_PARENT), src/main.test.py:28
FillWidth ==
    ViewMeasurement(<<0, 0>>, Pair(MATCH_PARENT, WRAP_CONTENT), <<10, 10, 10, 10>>)

\* default(size=(20, 20), margin_top=1, margin_right=2, margin_bottom=3,
\* margin_left=4)
Framed == ViewMeasurement(<<0, 0>>, Pair(Num(20), Num(20)), <<1, 2, 3, 4>>)

\* default(margin_left=10, margin_right=10, size=0.4), src/main.test.py:21
Percent ==
    ViewMeasurement(<<0, 0>>, Float(4, 10), <<0, 10, 0, 10>>)

\* default(position=(100, 50))
Placed == ViewMeasurement(<<100, 50>>, Pair(WRAP_CONTENT, WRAP_CONTENT), NoMargin)

\* default(size=(95, 10), margin_right=10)
Wide == ViewMeasurement(<<0, 0>>, Pair(Num(95), Num(10)), <<0, 10, 0, 0>>)

\* default(size=(10, 10), margin_top=-5)
Lifted == ViewMeasurement(<<0, 0>>, Pair(Num(10), Num(10)), <<0 - 5, 0, 0, 0>>)

\* default(size=(120, 10))
Broad == ViewMeasurement(<<0, 0>>, Pair(Num(120), Num(10)), NoMargin)

\* default(position=(100, 50), size=(120, 10))
PlacedBroad == ViewMeasurement(<<100, 50>>, Pair(Num(120), Num(10)), NoMargin)

\* default(position=(100, 0), size=(100, 10))
PlacedRow == ViewMeasurement(<<100, 0>>, Pair(Num(100), Num(10)), NoMargin)

\* default(position=(100, 100), size=ViewSize.MATCH_PARENT, margin=10)
PlacedFill ==
    ViewMeasurement(<<100, 100>>, Pair(MATCH_PARENT, MATCH_PARENT),
                    <<10, 10, 10, 10>>)

\* the preferred measurements of the views added to a group: a stack ignores
\* the preferred position, a Group takes placed children too
Preferences(cls) ==
    IF cls = "Group"
    THEN {Square(10), Fill, FillWidth, Framed, Percent, Placed, Wide, Lifted,
          Broad, PlacedBroad, PlacedRow, PlacedFill}
    ELSE {Square(10), Square(20), Square(30), Fill, FillWidth, Framed, Percent}

InitLayout ==
    /\ \E c \in GroupClasses : group = c[1] /\ alignment = c[2]
    /\ actual_size \in ParentSizes
    /\ children = <<>>
    /\ pcLayout = "built"
    /\ draws = 0
    /\ group_prefer = Fill
    /\ canvas_size = actual_size
    /\ content = NoContent

\* Group.add_view: append the child, then invalidate() (request_redraw)
add_view(child) ==
    /\ Len(children) < MaxChildren
    /\ children' = Append(children, child)
    /\ requests' = requests + 1
    /\ pcLayout' = "built"
    /\ draws' = 0
    /\ UNCHANGED <<group, alignment, actual_size, group_prefer, canvas_size,
                   content>>
    /\ UNCHANGED <<status, redraw_listener, panic_handler, started, pcLoop,
                   current_requests, exc, handler_arg, pcReq, regReq, calls,
                   pcMain, pcExt, burst, burstCalls, redrawsAfter>>
    /\ UNCHANGED <<ovlVars, chartVars, trendVars>>

\* Group.measure / VGroup.measure / HGroup.measure: the whole loop
measure ==
    /\ pcLayout = "built"
    /\ \E ms \in {measures_of(group, children, actual_size, alignment,
                               Len(children))} :
           /\ children' = [i \in 1..Len(children) |->
                             IF i <= Len(ms)
                             THEN [children[i] EXCEPT !.actual_measurement = ms[i]]
                             ELSE children[i]]
           /\ pcLayout' = IF Len(ms) = Len(children) THEN "measured" ELSE "raised"
    /\ UNCHANGED <<group, alignment, actual_size, draws, group_prefer, canvas_size,
                   content>>
    /\ UNCHANGED <<ctxVars, ovlVars, chartVars, trendVars>>

\* the children, from the first, whose buffer Image.new can make: a negative
\* width or height raises ValueError and ends the loop of draw()
RECURSIVE Buffered(_, _)
Buffered(ms, n) ==
    IF n > Len(ms) \/ ms[n].size[1] < 0 \/ ms[n].size[2] < 0
    THEN n - 1
    ELSE Buffered(ms, n + 1)

(* Group.draw: measure(), then for each child in order a buffer of its
   actual size, the child's draw() into it and overlay; a plain View draws
   nothing, so the buffer stays transparent and overlay writes no pixel.
   An exception of measure() or of Image.new ends the draw. *)
Group_draw ==
    /\ pcLayout = "built"
    /\ \E ms \in {measures_of(group, children, actual_size, alignment,
                               Len(children))} :
           LET measured == Len(ms) = Len(children)
               n == IF measured THEN Buffered(ms, 1) ELSE 0
           IN  /\ children' = [i \in 1..Len(children) |->
                                 IF i <= Len(ms)
                                 THEN [children[i] EXCEPT
                                          !.actual_measurement = ms[i]]
                                 ELSE children[i]]
               /\ draws' = n
               /\ pcLayout' = IF measured /\ n = Len(children)
                              THEN "drawn" ELSE "draw_raised"
    /\ UNCHANGED <<group, alignment, actual_size, group_prefer, canvas_size,
                   content>>
    /\ UNCHANGED <<ctxVars, ovlVars, chartVars, trendVars>>

NextLayout ==
    \/ \E p \in Preferences(group) : add_view(View(p))
    \/ measure
    \/ Group_draw

-----------------------------------------------------------------------------
(* A group under the root group of a Context, laid out and drawn by
   redraw_once() as in src/main.test.py. *)

(* Group.content_size (src/ui.py:226-238): one axis of one pass of its loop.
   In the elif, `or` binds looser than `and`: a float size is taken whatever
   _max holds, an int size only when it exceeds _max. *)
content_step(max, child, a) ==
    LET margin == child.preferred_measurement.margin
        margins == IF a = 1 THEN margin[2] + margin[4] ELSE margin[1] + margin[3]
        size == child.preferred_measurement.size
        s == IF a = 1 THEN size.w ELSE size.h
    IN  IF s = WRAP_CONTENT /\ View_content_size[a] + margins > max
        THEN View_content_size[a] + margins
        ELSE IF s.tag = "number"
                  /\ (s.type = "float" \/ s.value + margins > max)
        THEN s.value + margins
        ELSE max

\* Group.content_size: _max after the first n children
RECURSIVE Group_content_size(_, _)
Group_content_size(chs, n) ==
    IF n = 0
    THEN <<0, 0>>
    ELSE LET max == Group_content_size(chs, n - 1)
         IN  <<content_step(max[1], chs[n], 1), content_step(max[2], chs[n], 2)>>

\* get_predefined_size (src/ui.py:395-405)
get_predefined_size(child) ==
    LET preference == child.preferred_measurement
        w == IF preference.size.w.tag = "number"
             THEN preference.size.w.value ELSE View_content_size[1]
        h == IF preference.size.h.tag = "number"
             THEN preference.size.h.value ELSE View_content_size[2]
    IN  <<w + preference.margin[2] + preference.margin[4],
          h + preference.margin[1] + preference.margin[3]>>

\* VGroup.content_size: bound after the first n children
RECURSIVE VGroup_content_size(_, _)
VGroup_content_size(chs, n) ==
    IF n = 0
    THEN <<0, 0>>
    ELSE LET bound == VGroup_content_size(chs, n - 1)
             size == get_predefined_size(chs[n])
         IN  <<IF size[1] > bound[1] THEN size[1] ELSE bound[1],
               bound[2] + size[2]>>

\* HGroup.content_size: bound after the first n children
RECURSIVE HGroup_content_size(_, _)
HGroup_content_size(chs, n) ==
    IF n = 0
    THEN <<0, 0>>
    ELSE LET bound == HGroup_content_size(chs, n - 1)
             size == get_predefined_size(chs[n])
         IN  <<bound[1] + size[1],
               IF size[2] > bound[2] THEN size[2] ELSE bound[2]>>

\* content_size() of a group of the class: each class subscripts the
\* preferred size of every child, which raises TypeError for a bare float
content_size(cls, chs) ==
    IF \E i \in 1..Len(chs) : ~Subscriptable(chs[i].preferred_measurement.size)
    THEN [called |-> TRUE, raised |-> TRUE, size |-> <<0, 0>>]
    ELSE [called |-> TRUE, raised |-> FALSE,
          size |-> IF cls = "Group" THEN Group_content_size(chs, Len(chs))
                   ELSE IF cls = "VGroup"
                        THEN VGroup_content_size(chs, Len(chs))
                        ELSE HGroup_content_size(chs, Len(chs))]

\* ViewMeasurement(size=0.5), src/main.test.py:26
Half == ViewMeasurement(<<0, 0>>, Float(1, 2), NoMargin)

\* default(size=(20.0, 20.0))
Exact == ViewMeasurement(<<0, 0>>, Pair(Real(20), Real(20)), NoMargin)

\* the preferred measurements of the views added to the group: the three of
\* src/main.test.py:20-31, an int-sized and a float-sized one
TreePreferences == {Percent, Half, FillWidth, Square(30), Exact}

\* default(width=ViewSize.MATCH_PARENT), src/main.test.py:12
Banner == ViewMeasurement(<<0, 0>>, Pair(MATCH_PARENT, WRAP_CONTENT), NoMargin)

\* ViewMeasurement.default()
Default == ViewMeasurement(<<0, 0>>, Pair(WRAP_CONTENT, WRAP_CONTENT), NoMargin)

\* the preferred measurements of the group itself
GroupPreferences == {Banner, Fill, Default}

\* CANVAS_SIZE of src/main.test.py:3 and a small canvas
CanvasSizes == {<<800, 480>>, <<100, 100>>}

\* the group as constructed: its actual measurement is its preferred one
InitTree ==
    /\ \E c \in GroupClasses : group = c[1] /\ alignment = c[2]
    /\ group_prefer \in GroupPreferences
    /\ canvas_size \in CanvasSizes
    /\ actual_size = group_prefer.size
    /\ children = <<>>
    /\ pcLayout = "built"
    /\ draws = 0
    /\ content = NoContent

(* Context.redraw_once (src/ui.py:67-70): root_group.draw measures the group
   against the canvas size (get_effective_size calls the group's
   content_size() for a WRAP_CONTENT axis), makes its buffer and calls the
   group's draw(), which measures and draws the children. *)
Context_redraw_once ==
    /\ pcLayout = "built"
    /\ LET size == group_prefer.size
           wraps == size.w = WRAP_CONTENT \/ size.h = WRAP_CONTENT
           cs == IF wraps THEN content_size(group, children) ELSE content
           view == [preferred_measurement |-> group_prefer,
                    actual_measurement |-> group_prefer,
                    content |-> cs.size]
           actual == Group_measure(view, canvas_size)
       IN  /\ content' = cs
           /\ IF wraps /\ cs.raised
              THEN /\ pcLayout' = "redraw_raised"
                   /\ UNCHANGED <<actual_size, children, draws>>
              ELSE /\ actual_size' = actual.size
                   /\ IF actual.size[1] < 0 \/ actual.size[2] < 0
                      THEN /\ pcLayout' = "redraw_raised"
                           /\ UNCHANGED <<children, draws>>
                      ELSE \E ms \in {measures_of(group, children, actual.size,
                                                  alignment, Len(children))} :
                             LET measured == Len(ms) = Len(children)
                                 n == IF measured THEN Buffered(ms, 1) ELSE 0
                             IN  /\ children' =
                                       [i \in 1..Len(children) |->
                                          IF i <= Len(ms)
                                          THEN [children[i] EXCEPT
                                                   !.actual_measurement = ms[i]]
                                          ELSE children[i]]
                                 /\ draws' = n
                                 /\ pcLayout' = IF measured /\ n = Len(children)
                                                THEN "redrawn"
                                                ELSE "redraw_raised"
    /\ UNCHANGED <<group, alignment, group_prefer, canvas_size>>
    /\ UNCHANGED <<ctxVars, ovlVars, chartVars, trendVars>>

NextTree ==
    \/ \E p \in TreePreferences : add_view(View(p))
    \/ Context_redraw_once

-----------------------------------------------------------------------------
(* overlay: key-colour compositing (src/ui.py:408-417).  An image is its
   size and its pixels, the pixel (x, y) at px[<<x, y>>] with x and y from 0. *)

\* resources.COLOR_TRANSPARENT
COLOR_TRANSPARENT == 254

\* Image.new('L', size, color)
Image_new(size, color) ==
    [size |-> size,
     px |-> [xy \in (0..(size[1] - 1)) \X (0..(size[2] - 1)) |-> color]]

\* util.is_strictly_inside
is_strictly_inside(parent, child) == child[1] < parent[1] /\ child[2] < parent[2]

\* Image.getpixel
getpixel(image, xy) == image.px[xy]

\* mutant of putpixel: the pixel is inverted instead of set
putpixel_invert(image, xy, value) ==
    LET x == IF xy[1] < 0 THEN image.size[1] + xy[1] ELSE xy[1]
        y == IF xy[2] < 0 THEN image.size[2] + xy[2] ELSE xy[2]
    IN  IF x < 0 \/ x >= image.size[1] \/ y < 0 \/ y >= image.size[2]
        THEN [image |-> image, raised |-> TRUE]
        ELSE [image |-> [image EXCEPT !.px[<<x, y>>] = 255 - image.px[<<x, y>>]],
              raised |-> FALSE]

(* Image.putpixel as Pillow implements it: a negative coordinate counts from
   the far edge (x < 0 becomes xsize + x), and a coordinate that is then
   still outside the image raises IndexError. *)
putpixel(image, xy, value) ==
    LET x == IF xy[1] < 0 THEN image.size[1] + xy[1] ELSE xy[1]
        y == IF xy[2] < 0 THEN image.size[2] + xy[2] ELSE xy[2]
    IN  IF x < 0 \/ x >= image.size[1] \/ y < 0 \/ y >= image.size[2]
        THEN [image |-> image, raised |-> TRUE]
        ELSE [image |-> [image EXCEPT !.px[<<x, y>>] = value], raised |-> FALSE]

\* overlay from the pass of its loops at row y, column x on: the image it
\* leaves and whether putpixel raised; break leaves the row
RECURSIVE overlay_from(_, _, _, _, _)
overlay_from(bg, fg, pos, y, x) ==
    IF y >= fg.size[2]
    THEN [image |-> bg, raised |-> FALSE]
    ELSE IF x >= fg.size[1]
    THEN overlay_from(bg, fg, pos, y + 1, 0)
    ELSE LET b_pos == <<x + pos[1], y + pos[2]>>
             pf == getpixel(fg, <<x, y>>)
             put == putpixel(bg, b_pos, pf)
         IN  IF ~is_strictly_inside(bg.size, b_pos)
             THEN overlay_from(bg, fg, pos, y + 1, 0)
             ELSE IF pf # COLOR_TRANSPARENT
             THEN IF put.raised
                  THEN [image |-> bg, raised |-> TRUE]
                  ELSE overlay_from(put.image, fg, pos, y, x + 1)
             ELSE overlay_from(bg, fg, pos, y, x + 1)

\* overlay(background, foreground, position)
overlay(bg, fg, pos) == overlay_from(bg, fg, pos, 0, 0)

\* the images of the given size with pixels from the given values
Images(size, values) ==
    { [size |-> size, px |-> f] :
        f \in [(0..(size[1] - 1)) \X (0..(size[2] - 1)) -> values] }

\* a child buffer: up to MaxSide wide, one or two rows, each pixel drawn
\* black or left transparent
Foregrounds ==
    UNION { Images(<<w, h>>, {0, COLOR_TRANSPARENT}) :
              w \in 1..MaxSide, h \in {1, 2} }

\* a parent canvas cleared to white (src/ui.py:68-69)
Backgrounds ==
    { Image_new(<<w, h>>, 255) : w \in 1..MaxSide, h \in 1..MaxSide }

\* positions from left of / above the canvas to its far corner
Positions == ((0 - 2)..MaxSide) \X ((0 - 2)..MaxSide)

InitOverlay ==
    /\ background \in Backgrounds
    /\ foreground \in Foregrounds
    /\ overlay_position \in Positions
    /\ background0 = background
    /\ pcOverlay = "ready"

\* a call of overlay(background, foreground, position)
overlay_call ==
    /\ pcOverlay = "ready"
    /\ LET r == overlay(background, foreground, overlay_position)
       IN  /\ background' = r.image
           /\ pcOverlay' = IF r.raised THEN "raised" ELSE "done"
    /\ UNCHANGED <<foreground, overlay_position, background0>>
    /\ UNCHANGED <<ctxVars, layVars, chartVars, trendVars>>

\* the same call once more: the child drawn again with identical inputs
overlay_again ==
    /\ pcOverlay \in {"done", "raised"}
    /\ LET r == overlay(background, foreground, overlay_position)
       IN  /\ background' = r.image
           /\ pcOverlay' = IF r.raised THEN "again_raised" ELSE "again_done"
    /\ UNCHANGED <<foreground, overlay_position, background0>>
    /\ UNCHANGED <<ctxVars, layVars, chartVars, trendVars>>

NextOverlay == overlay_call \/ overlay_again

-----------------------------------------------------------------------------
(* Group.draw with the pixels it writes (src/ui.py:207-217): a Group of a few
   pixels whose children are Surfaces, each filling its buffer with its fill
   colour. *)

\* Surface(context, fill=fill, prefer=prefer): a view that shows pure colour
Surface(prefer, fill) ==
    [preferred_measurement |-> prefer, actual_measurement |-> prefer,
     fill |-> fill]

(* Surface.draw (src/ui.py:611-633) with the default stroke (transparent,
   width 1) and radius 0: the rectangle from (0, 0) to size - 1, the whole
   buffer, is filled unless the fill is COLOR_TRANSPARENT. *)
Surface_draw(image, fill) ==
    IF fill # COLOR_TRANSPARENT
    THEN [image EXCEPT !.px = [xy \in DOMAIN image.px |-> fill]]
    ELSE image

(* the loop of Group.draw (lines 212-217) over the first n children: for each
   in order a buffer of its actual size filled with COLOR_TRANSPARENT, the
   child's draw() into it and overlay onto the canvas at its actual position;
   an exception of overlay ends the loop *)
RECURSIVE composite(_, _, _, _)
composite(canvas, chs, ms, n) ==
    IF n = 0
    THEN [image |-> canvas, raised |-> FALSE]
    ELSE LET before == composite(canvas, chs, ms, n - 1)
             partial == Image_new(ms[n].size, COLOR_TRANSPARENT)
             drawn == Surface_draw(partial, chs[n].fill)
         IN  IF before.raised THEN before
             ELSE overlay(before.image, drawn, ms[n].position)

\* the most Surfaces added to the small group
MaxSurfaces == 3

\* the actual sizes of the small group
CanvasSides == {<<2, 2>>, <<3, 2>>}

\* default(position=(x, y), size=(w, h)) for a Surface of the palette
At(x, y, w, h) == ViewMeasurement(<<x, y>>, Pair(Num(w), Num(h)), NoMargin)

\* default(size=(1, 1), margin_left=-1)
Outdented ==
    ViewMeasurement(<<0, 0>>, Pair(Num(1), Num(1)), <<0, 0, 0, 0 - 1>>)

\* the Surfaces added to the group: two opaque fills, a transparent one and
\* one with a negative margin
Surfaces ==
    { Surface(At(0, 0, 2, 2), fill) : fill \in {0, 100, COLOR_TRANSPARENT} }
      \cup { Surface(At(1, 1, 1, 1), fill) : fill \in {0, 100} }
      \cup {Surface(At(0, 0, 1, 1), 0), Surface(At(1, 1, 2, 2), 100),
            Surface(Outdented, 100)}

InitPaint ==
    /\ group = "Group"
    /\ alignment = "NONE"
    /\ actual_size \in CanvasSides
    /\ children = <<>>
    /\ pcLayout = "built"
    /\ draws = 0
    /\ group_prefer = Fill
    /\ canvas_size = actual_size
    /\ content = NoContent
    /\ background = Image_new(actual_size, 255)
    /\ foreground = Image_new(<<0, 0>>, COLOR_TRANSPARENT)
    /\ overlay_position = <<0, 0>>
    /\ background0 = background
    /\ pcOverlay = "ready"

\* Group.add_views: extend the children by the given ones, then invalidate()
add_views(first, second) ==
    /\ Len(children) + 2 <= MaxChildren
    /\ children' = children \o <<first, second>>
    /\ requests' = requests + 1
    /\ pcLayout' = "built"
    /\ draws' = 0
    /\ UNCHANGED <<group, alignment, actual_size, group_prefer, canvas_size,
                   content>>
    /\ UNCHANGED <<status, redraw_listener, panic_handler, started, pcLoop,
                   current_requests, exc, handler_arg, pcReq, regReq, calls,
                   pcMain, pcExt, burst, burstCalls, redrawsAfter>>
    /\ UNCHANGED <<ovlVars, chartVars, trendVars>>

\* Group.clear: drop the children, then invalidate(); the number of
\* invalidations at which the group is still cleared is capped
clear ==
    /\ children # <<>>
    /\ requests <= MaxChildren
    /\ children' = <<>>
    /\ requests' = requests + 1
    /\ pcLayout' = "built"
    /\ draws' = 0
    /\ UNCHANGED <<group, alignment, actual_size, group_prefer, canvas_size,
                   content>>
    /\ UNCHANGED <<status, redraw_listener, panic_handler, started, pcLoop,
                   current_requests, exc, handler_arg, pcReq, regReq, calls,
                   pcMain, pcExt, burst, burstCalls, redrawsAfter>>
    /\ UNCHANGED <<ovlVars, chartVars, trendVars>>

(* Group.draw onto a canvas cleared to white (redraw_once, lines 68-69):
   measure(), then the loop over the children; Image.new raises for a child
   of negative size and ends the draw. *)
Group_draw_canvas ==
    /\ pcLayout = "built"
    /\ \E ms \in {measures_of(group, children, actual_size, alignment,
                               Len(children))} :
           LET n == Buffered(ms, 1)
               r == composite(background0, children, ms, n)
           IN  /\ children' = [i \in 1..Len(children) |->
                                 [children[i] EXCEPT !.actual_measurement = ms[i]]]
               /\ draws' = n
               /\ background' = r.image
               /\ pcLayout' = IF n = Len(children) /\ ~r.raised
                              THEN "drawn" ELSE "draw_raised"
    /\ UNCHANGED <<group, alignment, actual_size, group_prefer, canvas_size,
                   content>>
    /\ UNCHANGED <<foreground, overlay_position, background0, pcOverlay>>
    /\ UNCHANGED <<ctxVars, chartVars, trendVars>>

NextPaint ==
    \/ \E s \in Surfaces : Len(children) < MaxSurfaces /\ add_view(s)
    \/ \E s \in Surfaces, u \in Surfaces :
           Len(children) + 2 <= MaxSurfaces /\ add_views(s, u)
    \/ clear
    \/ Group_draw_canvas

-----------------------------------------------------------------------------
(* ChartsView: the axis strips and the body rectangle (src/charts.py:102-181).
   A strip or rectangle is <<x, y, width, height>>. *)

AxisPosition == {"LEFT", "RIGHT", "TOP", "BOTTOM"}

\* charts.Axis: where the axis goes and whether it is drawn
Axis(pos, enabled) == [position |-> pos, enabled |-> enabled]

\* ChartsView.x_axis_size
x_axis_size == 64

\* ChartsView.y_axis_size
y_axis_size == 64

\* ChartsView.__draw_axis, lines 113-153: the two strips
x_strip(cfg, bnd, sc) ==
    IF cfg.x_axis.enabled /\ cfg.y_axis.enabled
    THEN <<IF cfg.y_axis.position = "LEFT" THEN y_axis_size * sc ELSE 0,
           IF cfg.x_axis.position = "BOTTOM"
           THEN bnd[2] - x_axis_size * sc ELSE 0,
           bnd[1] - y_axis_size,
           x_axis_size * sc>>
    ELSE IF cfg.x_axis.enabled
    THEN <<0,
           IF cfg.x_axis.position = "BOTTOM"
           THEN bnd[2] - x_axis_size * sc ELSE 0,
           bnd[1],
           x_axis_size * sc>>
    ELSE <<0, 0, 0, 0>>

y_strip(cfg, bnd, sc) ==
    IF cfg.x_axis.enabled /\ cfg.y_axis.enabled
    THEN <<IF cfg.y_axis.position = "LEFT" THEN 0 ELSE bnd[1] - y_axis_size * sc,
           IF cfg.x_axis.position = "BOTTOM"
           THEN bnd[2] - y_axis_size * sc ELSE x_axis_size * sc,
           y_axis_size * sc,
           bnd[2] - x_axis_size>>
    ELSE IF cfg.y_axis.enabled
    THEN <<IF cfg.y_axis.position = "LEFT" THEN 0 ELSE bnd[1] - y_axis_size * sc,
           0,
           y_axis_size * sc,
           bnd[2]>>
    ELSE <<0, 0, 0, 0>>

\* ChartsView.__draw_axis, lines 154-155 and 166-181: the body rectangle
body_bounds(cfg, bnd, sc) ==
    IF ~cfg.x_axis.enabled /\ ~cfg.y_axis.enabled
    THEN <<0, 0, bnd[1], bnd[2]>>
    ELSE LET swap == cfg.x_axis.position \in {"LEFT", "RIGHT"}
             xa == IF swap THEN y_strip(cfg, bnd, sc) ELSE x_strip(cfg, bnd, sc)
             ya == IF swap THEN x_strip(cfg, bnd, sc) ELSE y_strip(cfg, bnd, sc)
         IN  <<IF ya[1] = 0 THEN ya[3] ELSE 0,
               IF xa[2] = 0 THEN xa[4] ELSE 0,
               bnd[1] - ya[3],
               bnd[2] - xa[4]>>

\* ChartsView.__draw_axis: the strips it composites (a strip is drawn when
\* its size is positive, lines 157-164) and the body it returns
draw_axis(cfg, bnd, sc) ==
    LET both_off == ~cfg.x_axis.enabled /\ ~cfg.y_axis.enabled
        xa == x_strip(cfg, bnd, sc)
        ya == y_strip(cfg, bnd, sc)
    IN  [x_axis |-> xa,
         y_axis |-> ya,
         x_drawn |-> ~both_off /\ is_positive(<<xa[3], xa[4]>>),
         y_drawn |-> ~both_off /\ is_positive(<<ya[3], ya[4]>>),
         body_bounds |-> body_bounds(cfg, bnd, sc)]

\* the configurations of a chart: each axis anywhere, enabled or not
Configurations ==
    { [x_axis |-> Axis(xp, xe), y_axis |-> Axis(yp, ye)] :
        xp \in AxisPosition, yp \in AxisPosition, xe \in BOOLEAN, ye \in BOOLEAN }

\* the actual sizes of a chart view
ChartSizes == {<<200, 200>>, <<300, 150>>, <<64, 64>>, <<0, 0>>}

NoStrips ==
    [x_axis |-> <<0, 0, 0, 0>>, y_axis |-> <<0, 0, 0, 0>>,
     x_drawn |-> FALSE, y_drawn |-> FALSE, body_bounds |-> <<0, 0, 0, 0>>]

InitCharts ==
    /\ chart_configuration \in Configurations
    /\ chart_size \in ChartSizes
    /\ chart_scale \in 1..MaxScale
    /\ chart_axis = NoStrips
    /\ pcChart = "ready"

\* ChartsView.draw
ChartsView_draw ==
    /\ pcChart = "ready"
    /\ chart_axis' = draw_axis(chart_configuration, chart_size, chart_scale)
    /\ pcChart' = "drawn"
    /\ UNCHANGED <<chart_configuration, chart_size, chart_scale>>
    /\ UNCHANGED <<ctxVars, layVars, ovlVars, trendVars>>

NextCharts == ChartsView_draw

\* no chart is being drawn
IdleCharts ==
    /\ chart_configuration = [x_axis |-> Axis("BOTTOM", FALSE),
                              y_axis |-> Axis("LEFT", FALSE)]
    /\ chart_size = <<0, 0>>
    /\ chart_scale = 1
    /\ chart_axis = NoStrips
    /\ pcChart = "ready"

-----------------------------------------------------------------------------
(* TrendChartsView: mapping a data series to pixels (src/charts.py:191-375,
   449-472).  A series is its kind ("numeric" when the independent values
   are numbers, "categorical" when they are strings) and its points
   <<independent, dependent>>; a categorical point carries the number of its
   category.  All values are whole numbers. *)

\* 2^e for e >= 0
RECURSIVE Pow2(_)
Pow2(e) == IF e <= 0 THEN 1 ELSE 2 * Pow2(e - 1)

\* (a * 2^e) mod b, for e >= 0
RECURSIVE ShiftMod(_, _, _)
ShiftMod(a, e, b) == IF e <= 0 THEN a % b ELSE ShiftMod((2 * a) % b, e - 1, b)

\* the binary exponent of the quotient a / b, for a, b > 0: the e with
\* 2^e <= a / b < 2^(e + 1)
RECURSIVE Exponent(_, _)
Exponent(a, b) ==
    IF a < b THEN Exponent(2 * a, b) - 1
    ELSE IF a >= 2 * b THEN Exponent(a, 2 * b) + 1
    ELSE 0

(* int(a / b * w) as Python computes it for integers a, w >= 0 and b > 0:
   a / b is rounded to the nearest binary64 value (53 significant bits), the
   product with w is rounded again, and int() truncates.  The product can
   only miss floor(a * w / b) when a * w / b is a whole number k and a / b
   was rounded down by r / (b * 2^s), s = 52 - Exponent(a, b): the product
   k - r * w / (b * 2^s) then rounds to k unless it is more than half a
   unit in the last place below k. *)
int_div_times(a, b, w) ==
    LET k == (a * w) \div b
        e == Exponent(a, b)
        r == ShiftMod(a, 52 - e, b)
        m == Exponent(k, 1)
        half == IF k = Pow2(m) THEN m - e - 2 ELSE m - e - 1
    IN  IF a = 0 \/ w = 0 THEN 0
        ELSE IF (a * w) % b # 0 \/ r = 0 \/ 2 * r > b THEN k
        ELSE IF r * w * Pow2(0 - half) > b * Pow2(half) THEN k - 1
        ELSE k

\* charts.Axis.min / Axis.max of the two axes, as Axis.__init__ leaves them
NoRange == [x_min |-> 0, x_max |-> 0, y_min |-> 0, y_max |-> 0]

Min(a, b) == IF a < b THEN a ELSE b

Max(a, b) == IF a > b THEN a ELSE b

\* min / max of column c of the points pts[1..n]
RECURSIVE MinOf(_, _, _)
MinOf(pts, c, n) ==
    IF n = 1 THEN pts[1][c] ELSE Min(MinOf(pts, c, n - 1), pts[n][c])

RECURSIVE MaxOf(_, _, _)
MaxOf(pts, c, n) ==
    IF n = 1 THEN pts[1][c] ELSE Max(MaxOf(pts, c, n - 1), pts[n][c])

\* charts.update_axis_bounds: the y range always; the x range only for a
\* non-degenerate numeric series
update_axis_bounds(data, axes) ==
    LET n == Len(data.pts)
        y_min == MinOf(data.pts, 2, n)
        y_max == MaxOf(data.pts, 2, n)
    IN  IF y_min = y_max \/ data.kind # "numeric"
        THEN [axes EXCEPT !.y_min = y_min, !.y_max = y_max]
        ELSE [x_min |-> MinOf(data.pts, 1, n), x_max |-> MaxOf(data.pts, 1, n),
              y_min |-> y_min, y_max |-> y_max]

\* what a drawing function leaves: the exception it raised, the polyline it
\* drew and the points it returned, each <<pixel, data point>>
Drawn(line, points) == [raised |-> "none", line |-> line, points |-> points]

Raised(e) == [raised |-> e, line |-> <<>>, points |-> <<>>]

\* charts.draw_straight_line
draw_straight_line(bnd, axes, data) ==
    LET n == Len(data.pts)
        y_len == axes.y_max - axes.y_min
        x_len == axes.x_max - axes.x_min
        y_center == bnd[2] \div 2
        y_of(p) == (bnd[2] * (axes.y_max - p[2])) \div y_len
        flat == [i \in 1..n |->
                    <<<<int_div_times(i - 1, n, bnd[1]), y_center>>, data.pts[i]>>]
        numeric == [i \in 1..n |->
                    <<<<int_div_times(data.pts[i][1] - axes.x_min, x_len, bnd[1]),
                        y_of(data.pts[i])>>, data.pts[i]>>]
        categorical == [i \in 1..n |->
                    <<<<int_div_times(bnd[1], n - 1, i - 1),
                        y_of(data.pts[i])>>, data.pts[i]>>]
    IN  IF y_len = 0
        THEN Drawn(<<<<0, y_center>>, <<bnd[1], y_center>>>>, flat)
        ELSE IF data.kind = "numeric"
        THEN IF x_len = 0
             THEN Raised("ZeroDivisionError")
             ELSE Drawn([i \in 1..n |-> numeric[i][1]], numeric)
        ELSE Drawn([i \in 1..n |-> categorical[i][1]], categorical)


\* n / d rounded to the nearest whole number, a tie to the even one
RoundHalfEven(n, d) ==
    LET q == n \div d
        rem == n % d
    IN  IF 2 * rem < d THEN q
        ELSE IF 2 * rem > d THEN q + 1
        ELSE IF q % 2 = 0 THEN q ELSE q + 1

(* int(a / b * w + c) as Python computes it for integers a, w >= 0 and
   b, c > 0.  When a * w / b is a whole number k and a / b was rounded down,
   the rounded product lies j units in the last place below k, the unit
   being that of the values just below k; adding c rounds once more, to
   k + c unless those j units exceed half a unit in the last place below
   k + c.  Lengths are counted in units of 2^-54. *)
int_div_times_plus(a, b, w, c) ==
    LET k == (a * w) \div b
        e == Exponent(a, b)
        r == ShiftMod(a, 52 - e, b)
        m == Exponent(k, 1)
        sh == IF k = Pow2(m) THEN m - e - 1 ELSE m - e
        j == RoundHalfEven(r * w * Pow2(0 - sh), b * Pow2(sh))
        below == IF k = Pow2(m) THEN j * Pow2(m + 1) ELSE j * Pow2(m + 2)
        mc == Exponent(k + c, 1)
        half == IF k + c = Pow2(mc) THEN Pow2(mc) ELSE Pow2(mc + 1)
    IN  IF a = 0 \/ w = 0 THEN c
        ELSE IF (a * w) % b # 0 \/ r = 0 \/ 2 * r > b THEN k + c
        ELSE IF below > half THEN k + c - 1
        ELSE k + c

\* draw_bezier_curve.map_to_canvas followed by util.int_vector: the pixel of
\* a point, 10 pixels inside the body; a categorical point is placed by its
\* index i (from 0)
map_to_canvas(bnd, axes, data, i) ==
    LET p == data.pts[i + 1]
        n == Len(data.pts)
        y == int_div_times_plus(axes.y_max - p[2], axes.y_max - axes.y_min,
                                bnd[2] - 20, 10)
    IN  IF data.kind = "numeric"
        THEN <<int_div_times_plus(p[1] - axes.x_min, axes.x_max - axes.x_min,
                                  bnd[1] - 20, 10), y>>
        ELSE <<int_div_times_plus(i, n - 1, bnd[1] - 20, 10), y>>

(* draw_bezier_curve.manipulate for t = 0 and t = 1, on the truncated
   coordinates: the weights u^3, 3u^2t, 3ut^2, t^3 are then 0 or 1 and every
   product and sum is exact, so int() of the result is int() of the operand
   whose weight is 1. *)
manipulate(t, p0, p1, pc1, pc2) ==
    LET w == 1 - t
        at(c) == p0[c] * w * w * w + pc1[c] * 3 * w * w * t
                 + pc2[c] * 3 * w * t * t + p1[c] * t * t * t
    IN  <<at(1), at(2)>>

\* what iterate returns: a pixel, or None when no segment holds t
Pixel(p) == [none |-> FALSE, at |-> p]

None == [none |-> TRUE, at |-> <<0, 0>>]

\* the segments i (from 0) of a numeric series that hold the value x, from
\* cache['last_index'] on (lines 308-309)
SegmentsAt(data, x, last_index) ==
    { i \in last_index..(Len(data.pts) - 2) :
        data.pts[i + 1][1] <= x /\ x < data.pts[i + 2][1] }

LeastOf(S) == CHOOSE i \in S : \A k \in S : i <= k

(* draw_bezier_curve.iterate at t = 0 or t = 1.  Numeric: the first segment
   that holds x_len * t + x_min, at its local parameter; categorical:
   segment int(t * (n - 1)), moved back to the last one, at t % segment /
   segment, which is 0 at both ends when 1 / (n - 1) is exact.  The control
   points have weight 0 here; the segment's own ends stand for them. *)
iterate(bnd, axes, data, t, last_index) ==
    LET n == Len(data.pts)
        x == (axes.x_max - axes.x_min) * t + axes.x_min
        found == SegmentsAt(data, x, last_index)
        i == LeastOf(found)
        local == IF x = data.pts[i + 1][1] THEN 0 ELSE 1
        c == t * (n - 1)
        k == IF c >= n - 1 THEN n - 2 ELSE c
        seg(s, v) == manipulate(v, map_to_canvas(bnd, axes, data, s),
                                map_to_canvas(bnd, axes, data, s + 1),
                                map_to_canvas(bnd, axes, data, s),
                                map_to_canvas(bnd, axes, data, s + 1))
    IN  IF data.kind = "numeric"
        THEN IF found = {} THEN None ELSE Pixel(seg(i, local))
        ELSE Pixel(seg(k, 0))

\* charts.draw_bezier_curve; of the 4 * bounds[0] vertices of the curve only
\* the first, iterate(0), is kept: the others need the cubic at 0 < t < 1
draw_bezier_curve(bnd, axes, data) ==
    LET n == Len(data.pts)
        points == [i \in 1..n |->
                     <<map_to_canvas(bnd, axes, data, i - 1), data.pts[i]>>]
        first == iterate(bnd, axes, data, 0, 0)
    IN  IF axes.y_max = axes.y_min
        THEN draw_straight_line(bnd, axes, data)
        ELSE IF data.kind = "numeric" /\ axes.x_max = axes.x_min
        THEN Raised("ZeroDivisionError")
        ELSE IF first.none
        THEN Raised("TypeError")
        ELSE Drawn(<<first.at>>, points)

\* a data series
Series(kind, pts) == [kind |-> kind, pts |-> pts]

SeriesKinds == {"numeric", "categorical"}

\* n points of equal dependent value 5, the independent values 0, 1, ...
Constant(kind, n) == Series(kind, [i \in 1..n |-> <<i - 1, 5>>])

\* the independent and the dependent values of the other series
XValues == {0, 3, 7, 10}

YValues == {0, 5, 10}

\* the numeric series of n points in increasing order of the independent value
Increasing(n) ==
    { Series("numeric", pts) : pts \in
        { s \in [1..n -> XValues \X YValues] :
            \A i \in 1..(n - 1) : s[i][1] < s[i + 1][1] } }

\* the categorical series of n points, the categories numbered from 0
Categories(n) ==
    { Series("categorical", [i \in 1..n |-> <<i - 1, ys[i]>>]) :
        ys \in [1..n -> YValues] }

\* the lengths n for which 1 / (n - 1) is exact in binary64
ExactLengths == { n \in 2..MaxSeries : \E e \in 0..MaxSeries : n - 1 = Pow2(e) }

\* the series a TrendChartsView is given
DataSets ==
    {Series("numeric", <<>>)}
      \cup { Constant(kind, n) : kind \in SeriesKinds, n \in 1..MaxPoints }
      \cup UNION { Increasing(n) : n \in 2..MaxSeries }
      \cup UNION { Categories(n) : n \in ExactLengths }

\* the sizes of the body a chart is drawn on
Bodies == {<<100, 100>>, <<100, 50>>, <<90, 50>>}

ChartsLineType == {"STRAIGHT", "BEZIER_CURVE"}

InitTrend ==
    /\ trend_data \in DataSets
    /\ trend_bounds \in Bodies
    /\ trend_type \in ChartsLineType
    /\ axis_range = NoRange
    /\ trend_result = Drawn(<<>>, <<>>)
    /\ pcTrend = "ready"
    /\ data_sets = 0

\* TrendChartsView.draw_body, lines 460-470
draw_body ==
    /\ pcTrend = "ready"
    /\ LET axes == update_axis_bounds(trend_data, axis_range)
           res == IF trend_type = "STRAIGHT"
                  THEN draw_straight_line(trend_bounds, axes, trend_data)
                  ELSE draw_bezier_curve(trend_bounds, axes, trend_data)
       IN  IF Len(trend_data.pts) <= 0
           THEN /\ pcTrend' = "drawn"
                /\ UNCHANGED <<axis_range, trend_result>>
           ELSE /\ axis_range' = axes
                /\ trend_result' = res
                /\ pcTrend' = IF res.raised = "none" THEN "drawn" ELSE "raised"
    /\ UNCHANGED <<trend_data, trend_bounds, trend_type, data_sets>>
    /\ UNCHANGED <<ctxVars, layVars, ovlVars, chartVars>>

\* the series a chart is given later: one of equal dependent values, a
\* rising one, a categorical one and an empty one
NewData ==
    {Constant("numeric", 2),
     Series("numeric", <<<<3, 0>>, <<7, 10>>>>),
     Series("categorical", <<<<0, 0>>, <<1, 5>>>>),
     Series("numeric", <<>>)}

\* TrendChartsView.set_data: replace the series, then invalidate()
set_data(data) ==
    /\ data_sets < MaxSets
    /\ data_sets' = data_sets + 1
    /\ trend_data' = data
    /\ requests' = requests + 1
    /\ pcTrend' = "ready"
    /\ UNCHANGED <<trend_bounds, trend_type, axis_range, trend_result>>
    /\ UNCHANGED <<status, redraw_listener, panic_handler, started, pcLoop,
                   current_requests, exc, handler_arg, pcReq, regReq, calls,
                   pcMain, pcExt, burst, burstCalls, redrawsAfter>>
    /\ UNCHANGED <<layVars, ovlVars, chartVars>>

NextTrend ==
    \/ draw_body
    \/ \E data \in NewData : set_data(data)

\* no trend chart is being drawn
IdleTrend ==
    /\ trend_data = Series("numeric", <<>>)
    /\ trend_bounds = <<0, 0>>
    /\ trend_type = "STRAIGHT"
    /\ axis_range = NoRange
    /\ trend_result = Drawn(<<>>, <<>>)
    /\ pcTrend = "ready"
    /\ data_sets = 0

-----------------------------------------------------------------------------
(* Specifications *)

\* a group at rest while the Context runs
IdleLayout ==
    /\ group = "Group"
    /\ alignment = "NONE"
    /\ actual_size = <<0, 0>>
    /\ children = <<>>
    /\ pcLayout = "built"
    /\ draws = 0
    /\ group_prefer = Fill
    /\ canvas_size = actual_size
    /\ content = NoContent

\* no overlay call is under way
IdleOverlay ==
    /\ background = Image_new(<<0, 0>>, 255)
    /\ foreground = Image_new(<<0, 0>>, COLOR_TRANSPARENT)
    /\ overlay_position = <<0, 0>>
    /\ background0 = background
    /\ pcOverlay = "ready"

NextContext ==
    \/ start
    \/ start_event_loop
    \/ \E t \in Requesters : request_redraw_load(t)
    \/ \E t \in Requesters : request_redraw_store(t)
    \/ \E h \in BOOLEAN : set_panic_handler(h)
    \/ \E l \in BOOLEAN : on_redraw(l)
    \/ destroy_call
    \/ destroy
    \/ redraw_once_begin
    \/ redraw_once_end

Init == InitContext /\ IdleLayout /\ IdleOverlay /\ IdleCharts /\ IdleTrend

\* the Context with every thread that may use it
SpecContext == Init /\ [][NextContext]_vars


\* the same under fair scheduling: a started loop thread keeps running (its
\* sleeps end, redraw_once ends) and a destroy() in progress keeps running
FairContext ==
    SpecContext /\ WF_vars(start_event_loop) /\ WF_vars(destroy)

\* one group of any class, its children added one by one and measured
StartLayout == InitContext /\ InitLayout /\ IdleOverlay /\ IdleCharts /\ IdleTrend

SpecLayout == StartLayout /\ [][NextLayout]_vars

\* one call of overlay on any canvas, buffer and position
StartOverlay == InitContext /\ IdleLayout /\ InitOverlay /\ IdleCharts /\ IdleTrend

StartCharts == InitContext /\ IdleLayout /\ IdleOverlay /\ InitCharts /\ IdleTrend

\* one draw of a chart of any configuration, size and scale
SpecCharts == StartCharts /\ [][NextCharts]_vars

StartTrend == InitContext /\ IdleLayout /\ IdleOverlay /\ IdleCharts /\ InitTrend

\* one draw of the body of a trend chart of any series, size and line type
SpecTrend == StartTrend /\ [][NextTrend]_vars

SpecOverlay == StartOverlay /\ [][NextOverlay]_vars

StartTree == InitContext /\ InitTree /\ IdleOverlay /\ IdleCharts /\ IdleTrend

StartPaint == InitContext /\ InitPaint /\ IdleCharts /\ IdleTrend

\* a Group of a few pixels, Surfaces added to it and the whole drawn
SpecPaint == StartPaint /\ [][NextPaint]_vars

\* one group of any class under the root group, its children added one by one
\* and the whole drawn by redraw_once()
SpecTree == StartTree /\ [][NextTree]_vars

-----------------------------------------------------------------------------
(* Claims about Context *)

\* C1: N >= 1 calls of request_redraw() made within one debounce window and
\* followed by no further call lead to exactly one redraw_once() by the loop:
\* never more than one, and (unless destroy() makes the loop exit first)
\* eventually one.
C1_ExactlyOneRedraw ==
    /\ [](burst = "closed" => redrawsAfter <= 1)
    /\ (burst = "closed") ~>
           (redrawsAfter = 1 \/ burst # "closed" \/ pcLoop = "exited")

\* a burst of at least two calls was closed and has been redrawn once
C1_Witness ==
    burst = "closed" /\ burstCalls >= 2 /\ redrawsAfter = 1 /\ pcLoop = "L60"

\* C2: after start(), a destroy() that was called returns (or raises):
\* it never blocks forever.
C2_DestroyReturns ==
    (pcMain = "L86") ~> (pcMain \in {"returned", "raised"})

\* C3: the status never goes from NOT_LOADED directly to STOPPED, and never
\* from STOPPED back to RUNNING.
C3_StatusMonotone ==
    [][/\ ~(status = "NOT_LOADED" /\ status' = "STOPPED")
       /\ ~(status = "STOPPED" /\ status' = "RUNNING")]_vars

\* C4: destroy() on a Context whose status is STOPPED raises and changes
\* nothing: the status stays STOPPED and join() is not reached.
C4_DestroyTwiceRaises ==
    [][(pcMain = "L86" /\ status = "STOPPED" /\ pcMain' # pcMain)
          => (pcMain' = "raised" /\ status' = "STOPPED"
              /\ UNCHANGED mainFrame)]_vars

\* destroy() has raised on a stopped Context whose loop has exited
C4_Witness ==
    pcMain = "raised" /\ status = "STOPPED" /\ pcLoop = "exited"

\* C5: an exception of a cycle is passed once to the panic handler when one is
\* registered, after which the loop tests its while condition again; with no
\* handler the exception ends the loop thread.
C5_PanicHandling ==
    [][/\ (pcLoop = "L62" /\ pcLoop' # pcLoop) =>
            IF panic_handler
            THEN pcLoop' = "L63" /\ handler_arg' = exc /\ status' = status
            ELSE pcLoop' = "crashed"
       /\ (pcLoop = "L63" /\ pcLoop' # pcLoop) =>
            (pcLoop' = "L50" /\ status' = status /\ handler_arg' = handler_arg)
       /\ (pcLoop # "L62" /\ pcLoop' # pcLoop) =>
            (pcLoop' # "L63" /\ pcLoop' # "crashed"
             /\ handler_arg' = handler_arg)]_vars

\* a redraw is in progress in a cycle that follows a handled exception
C5_Witness ==
    handler_arg = "listener_error" /\ exc = "none" /\ pcLoop = "drawing"

\* C6: no two executions of redraw_once() are in progress at the same time.
C6_NoOverlappingRedraws ==
    ~(pcLoop = "drawing" /\ pcExt = "drawing")

-----------------------------------------------------------------------------
(* Claims about the measure pass.  Axis 1 is horizontal, axis 2 vertical. *)

Axes == {1, 2}

Measured == pcLayout = "measured"

\* the child's preferred size on axis a is MATCH_PARENT
MatchParentOn(child, a) ==
    LET size == child.preferred_measurement.size
    IN  /\ size.tag = "tuple"
        /\ (IF a = 1 THEN size.w ELSE size.h) = MATCH_PARENT

\* the child's two margins on axis a
MarginsOn(child, a) ==
    LET margin == child.preferred_measurement.margin
    IN  IF a = 1 THEN margin[4] + margin[2] ELSE margin[1] + margin[3]

\* where the space of child i begins on axis a: in a Group the position it
\* was given less its leading margin, along the axis of a stack the end of the
\* previous child, across a stack 0
OffsetOn(i, a) ==
    IF group = "Group"
    THEN LET actual == children[i].actual_measurement
         IN  actual.position[a]
               - (IF a = 1 THEN actual.margin[4] ELSE actual.margin[1])
    ELSE IF (group = "VGroup" /\ a = 2) \/ (group = "HGroup" /\ a = 1)
         THEN IF i = 1
              THEN 0
              ELSE LET last == children[i - 1].actual_measurement
                   IN  last.position[a] + last.size[a]
                         + (IF a = 2 THEN last.margin[3] ELSE last.margin[2])
         ELSE 0

\* C7 as stated: after measure() every child that is MATCH_PARENT on an axis
\* has the parent's actual size on that axis, whatever its position and margin.
C7_FillParentAlways ==
    Measured =>
        \A i \in 1..Len(children) : \A a \in Axes :
            MatchParentOn(children[i], a) =>
                children[i].actual_measurement.size[a] = actual_size[a]

\* C7 amended: after measure() a child that is MATCH_PARENT on an axis has the
\* parent's actual size on that axis when its margins on that axis are zero
\* and its space begins at offset 0 on that axis.
C7_FillParent ==
    Measured =>
        \A i \in 1..Len(children) : \A a \in Axes :
            (/\ MatchParentOn(children[i], a)
             /\ MarginsOn(children[i], a) = 0
             /\ OffsetOn(i, a) = 0)
                => children[i].actual_measurement.size[a] = actual_size[a]

\* a MATCH_PARENT child without margins fills a 100 x 100 HGroup, and a
\* second child follows it
C7_Witness ==
    /\ Measured
    /\ group = "HGroup"
    /\ actual_size = <<100, 100>>
    /\ Len(children) = 2
    /\ children[1].preferred_measurement = Fill
    /\ children[1].actual_measurement.size = <<100, 100>>

\* the size of child i before clamping
ResolvedSize(i) ==
    IF group = "Group" THEN get_effective_size(children[i], actual_size)
    ELSE IF group = "VGroup" THEN VGroup_size(children[i], actual_size)
    ELSE HGroup_size(children[i], actual_size)

\* the space that remains in the parent for child i on axis a
RemainingOn(i, a) == actual_size[a] - OffsetOn(i, a)

\* C8: after measure() no child has a negative actual size, and a child whose
\* resolved size plus margins exceeds the remaining space on an axis has a
\* size r on that axis with r + margins <= remaining space.
C8_Clamped ==
    Measured =>
        \A i \in 1..Len(children) : \A a \in Axes :
            LET r == children[i].actual_measurement.size[a]
            IN  /\ r >= 0
                /\ (ResolvedSize(i)[a] + MarginsOn(children[i], a)
                        > RemainingOn(i, a))
                     => r + MarginsOn(children[i], a) <= RemainingOn(i, a)

\* C9: in a VGroup (HGroup) the first child lies at its own top (left) margin
\* and every later child at the previous child's position + actual size +
\* bottom (right) margin + its own top (left) margin; heights (widths) 10, 20,
\* 30 without margins in a stack of 100 lie at 0, 10, 30.
C9_Sequential ==
    (Measured /\ group \in {"VGroup", "HGroup"}) =>
        LET a == IF group = "VGroup" THEN 2 ELSE 1
            leading(m) == IF a = 2 THEN m[1] ELSE m[4]
            trailing(m) == IF a = 2 THEN m[3] ELSE m[2]
            actual(i) == children[i].actual_measurement
        IN  /\ \A i \in 1..Len(children) :
                  actual(i).position[a] =
                      (IF i = 1
                       THEN 0
                       ELSE actual(i - 1).position[a] + actual(i - 1).size[a]
                              + trailing(actual(i - 1).margin))
                      + leading(children[i].preferred_measurement.margin)
            /\ (/\ actual_size[a] = 100
                /\ [i \in 1..Len(children) |-> children[i].preferred_measurement]
                      = <<Square(10), Square(20), Square(30)>>)
                 => [i \in 1..3 |-> actual(i).position[a]] = <<0, 10, 30>>

\* the stack of heights 10, 20, 30 in a VGroup of height 100 has been measured
C9_Witness ==
    /\ Measured
    /\ group = "VGroup"
    /\ actual_size = <<100, 100>>
    /\ Len(children) = 3
    /\ children[1].preferred_measurement = Square(10)
    /\ children[2].preferred_measurement = Square(20)
    /\ children[3].preferred_measurement = Square(30)
    /\ children[3].actual_measurement.position[2] = 30
    /\ children[3].actual_measurement.size = <<30, 30>>

\* C17: whenever a Group, VGroup or HGroup invokes a child's draw() during
\* its own draw(), the child's actual size is a pair of concrete numbers (no
\* marker, no bare fraction) whatever size the child declared, and every
\* margin of its actual measurement is non-negative.
C17_ResolvedBeforeDraw ==
    \A i \in 1..draws :
        LET actual == children[i].actual_measurement
        IN  /\ actual.size[1] \in Int /\ actual.size[2] \in Int
            /\ \A k \in 1..4 : actual.margin[k] >= 0

\* C20: in VGroup.measure and HGroup.measure the cross-axis position of
\* every child follows the alignment: LEFT / TOP gives the child's leading
\* margin; RIGHT / BOTTOM gives stack extent - child extent - trailing (right
\* / bottom) margin; CENTER gives (stack extent - child extent) / 2.
C20_CrossAxisAlignment ==
    (Measured /\ group \in {"VGroup", "HGroup"}) =>
        LET c == IF group = "VGroup" THEN 1 ELSE 2
            leading(m) == IF c = 1 THEN m[4] ELSE m[1]
            trailing(m) == IF c = 1 THEN m[2] ELSE m[3]
        IN  \A i \in 1..Len(children) :
                LET actual == children[i].actual_measurement
                    margin == children[i].preferred_measurement.margin
                IN  IF alignment \in {"LEFT", "TOP"}
                    THEN actual.position[c] = leading(margin)
                    ELSE IF alignment \in {"RIGHT", "BOTTOM"}
                    THEN actual.position[c] =
                             actual_size[c] - actual.size[c] - trailing(margin)
                    ELSE 2 * actual.position[c] = actual_size[c] - actual.size[c]

-----------------------------------------------------------------------------
(* More claims about Context *)

\* C18: if request_redraw() was called during the debounce sleep of a cycle,
\* so that the counter differs from the value read before the sleep, the
\* cycle goes straight to its closing sleep and on to the next poll: no
\* redraw, no redraw listener, and the counter is not reset.
C18_SkipCycle ==
    [][/\ (pcLoop = "L54" /\ pcLoop' # "L54" /\ current_requests # requests)
           => (pcLoop' = "L60" /\ requests' = requests)
       /\ (pcLoop = "L60" /\ pcLoop' # "L60")
           => (pcLoop' = "L50" /\ requests' = requests)]_vars

\* a cycle was skipped: the loop is in its closing sleep with requests read
\* at the poll, more of them now, and the counter never reset
C18_Witness ==
    /\ pcLoop = "L60"
    /\ current_requests > 0
    /\ requests > current_requests
    /\ requests = calls

\* C19: once destroy() has returned the event loop starts no further redraw,
\* whatever request_redraw() calls follow: destroy() returns only when the
\* loop thread has ended and an ended thread stays ended; a redraw under way
\* is not cancelled, it leaves only by its own end or its own exception.
C19_NoRedrawAfterDestroy ==
    [][/\ (pcMain' = "returned" /\ pcMain # "returned") => LoopEnded
       /\ LoopEnded => pcLoop' = pcLoop
       /\ (pcLoop = "drawing" /\ pcLoop' # "drawing")
           => pcLoop' \in {"L58", "L62"}]_vars

\* destroy() has returned, the loop has left its while, and a request made
\* since the last redraw waits in the counter
C19_Witness ==
    /\ pcMain = "returned"
    /\ pcLoop = "exited"
    /\ requests > 0

-----------------------------------------------------------------------------
(* Claims about overlay *)

\* C10: overlay sets every destination pixel (x + position.x, y + position.y)
\* whose source pixel (x, y) is not COLOR_TRANSPARENT to that source pixel, and
\* leaves every other destination pixel as it was.
C10_OverlayEffect ==
    pcOverlay # "ready" =>
        \A d \in DOMAIN background.px :
            LET s == <<d[1] - overlay_position[1], d[2] - overlay_position[2]>>
            IN  IF s \in DOMAIN foreground.px
                   /\ foreground.px[s] # COLOR_TRANSPARENT
                THEN background.px[d] = foreground.px[s]
                ELSE background.px[d] = background0.px[d]

\* the source pixel that lands on the destination pixel d
SourceOf(d) == <<d[1] - overlay_position[1], d[2] - overlay_position[2]>>

\* C11: for every integer position, negative and beyond the canvas included,
\* overlay completes without raising, writes no pixel that no source pixel
\* lands on (none at a wrapped-around coordinate), and still writes every
\* non-transparent source pixel whose destination is inside the canvas.
C11_BoundsChecked ==
    pcOverlay # "ready" =>
        /\ pcOverlay = "done"
        /\ \A d \in DOMAIN background.px :
               SourceOf(d) \notin DOMAIN foreground.px
                   => background.px[d] = background0.px[d]
        /\ \A s \in DOMAIN foreground.px :
               LET d == <<s[1] + overlay_position[1], s[2] + overlay_position[2]>>
               IN  (d \in DOMAIN background.px
                       /\ foreground.px[s] # COLOR_TRANSPARENT)
                       => background.px[d] = foreground.px[s]

\* C16: drawing the same child twice in succession with identical inputs
\* into one freshly cleared parent buffer leaves exactly the pixels that
\* drawing it once leaves, for every child buffer, position and parent size.
C16_Idempotent ==
    [][(pcOverlay \in {"done", "raised"} /\ pcOverlay' # pcOverlay)
          => background' = background]_vars

\* the child was drawn twice and it changed the parent's image
C16_Witness ==
    pcOverlay = "again_done" /\ background # background0

-----------------------------------------------------------------------------
(* Claims about ChartsView *)

\* the rectangle r lies inside the view's actual rectangle
InsideView(r) ==
    /\ r[1] >= 0 /\ r[2] >= 0 /\ r[3] >= 0 /\ r[4] >= 0
    /\ r[1] + r[3] <= chart_size[1]
    /\ r[2] + r[4] <= chart_size[2]

\* the rectangles r and q share no pixel
Disjoint(r, q) ==
    \/ r[1] + r[3] <= q[1] \/ q[1] + q[3] <= r[1]
    \/ r[2] + r[4] <= q[2] \/ q[2] + q[4] <= r[2]

BothAxes ==
    /\ chart_configuration.x_axis.enabled
    /\ chart_configuration.y_axis.enabled
    /\ chart_configuration.x_axis.position \in {"TOP", "BOTTOM"}
    /\ chart_configuration.y_axis.position \in {"LEFT", "RIGHT"}

\* C12: with both axes enabled (x at TOP or BOTTOM, y at LEFT or RIGHT) the
\* x strip, the y strip and the body computed by ChartsView.draw lie inside
\* the view's rectangle, are pairwise disjoint, each strip lies against its
\* configured edge, and the body is the interior left after removing both.
C12_AxisLayout ==
    (pcChart = "drawn" /\ BothAxes) =>
        LET xa == chart_axis.x_axis
            ya == chart_axis.y_axis
            bb == chart_axis.body_bounds
        IN  /\ InsideView(xa) /\ InsideView(ya) /\ InsideView(bb)
            /\ Disjoint(xa, ya) /\ Disjoint(xa, bb) /\ Disjoint(ya, bb)
            /\ IF chart_configuration.x_axis.position = "TOP"
               THEN xa[2] = 0 ELSE xa[2] + xa[4] = chart_size[2]
            /\ IF chart_configuration.y_axis.position = "LEFT"
               THEN ya[1] = 0 ELSE ya[1] + ya[3] = chart_size[1]
            /\ bb[3] = chart_size[1] - ya[3] /\ bb[4] = chart_size[2] - xa[4]
            /\ bb[1] = (IF chart_configuration.y_axis.position = "LEFT"
                        THEN ya[3] ELSE 0)
            /\ bb[2] = (IF chart_configuration.x_axis.position = "TOP"
                        THEN xa[4] ELSE 0)

-----------------------------------------------------------------------------
(* Claims about TrendChartsView *)

\* a series of n >= 1 points was drawn without an exception
DrawnSeries == pcTrend = "drawn" /\ Len(trend_data.pts) >= 1

\* C13: when all dependent values of a series of n >= 1 points are equal,
\* draw_straight_line and draw_bezier_curve draw one horizontal line at
\* y = floor(H / 2) and return n points, the i-th (from 0) being
\* ((floor(i * W / n), floor(H / 2)), data[i]), for numeric and for
\* categorical independent values.
C13_DegenerateLine ==
    (DrawnSeries /\ axis_range.y_min = axis_range.y_max) =>
        LET n == Len(trend_data.pts)
            W == trend_bounds[1]
            y == trend_bounds[2] \div 2
        IN  /\ trend_result.line = <<<<0, y>>, <<W, y>>>>
            /\ Len(trend_result.points) = n
            /\ \A i \in 1..n :
                   trend_result.points[i] =
                       <<<<((i - 1) * W) \div n, y>>, trend_data.pts[i]>>

\* C14: for a numeric series with non-degenerate domains draw_straight_line
\* maps each point (x, y) to the pixel (floor((x - x_min) / (x_max - x_min)
\* * W), floor(H * (y_max - y) / (y_max - y_min))).
C14_LinearMap ==
    (/\ DrawnSeries
     /\ trend_type = "STRAIGHT"
     /\ trend_data.kind = "numeric"
     /\ axis_range.y_min < axis_range.y_max
     /\ axis_range.x_min < axis_range.x_max) =>
        \A i \in 1..Len(trend_data.pts) :
            LET p == trend_data.pts[i]
            IN  trend_result.points[i][1] =
                    <<((p[1] - axis_range.x_min) * trend_bounds[1])
                          \div (axis_range.x_max - axis_range.x_min),
                      (trend_bounds[2] * (axis_range.y_max - p[2]))
                          \div (axis_range.y_max - axis_range.y_min)>>

\* control points to try a segment with
ControlPoints == {<<0, 0>>, <<17, 93>>}

\* C15: for every series of length >= 2 the Bezier curve of
\* draw_bezier_curve evaluated at t = 0 and at t = 1 gives exactly the
\* mapped pixels of the first and of the last input point, and within each
\* segment the cubic at local parameter 0 (resp. 1) is the mapped pixel of
\* the segment's first (resp. second) point whatever the control points.
C15_BezierEndpoints ==
    (/\ DrawnSeries
     /\ trend_type = "BEZIER_CURVE"
     /\ axis_range.y_min < axis_range.y_max
     /\ Len(trend_data.pts) >= 2) =>
        LET n == Len(trend_data.pts)
            px(i) == map_to_canvas(trend_bounds, axis_range, trend_data, i)
        IN  /\ iterate(trend_bounds, axis_range, trend_data, 0, 0) = Pixel(px(0))
            /\ iterate(trend_bounds, axis_range, trend_data, 1, 0)
                   = Pixel(px(n - 1))
            /\ \A i \in 0..(n - 2) : \A pc1 \in ControlPoints, pc2 \in ControlPoints :
                   /\ manipulate(0, px(i), px(i + 1), pc1, pc2) = px(i)
                   /\ manipulate(1, px(i), px(i + 1), pc1, pc2) = px(i + 1)

-----------------------------------------------------------------------------
(* More claims about Group.measure *)

\* where Group.measure first puts child i: preferred position + (left, top)
PreferredPosition(i) ==
    LET p == children[i].preferred_measurement
    IN  plus(p.position, <<p.margin[4], p.margin[1]>>)

\* the space Group.measure finds left for child i after that position
RemainingSpace(i) == subtract(actual_size, PreferredPosition(i))

\* C21: in Group.measure, when the remaining space after the child's
\* position is positive on both axes and the resolved size exceeds it on one
\* axis only, the size on that axis becomes the remaining space and the size
\* on the other axis keeps its resolved value.
C21_OneAxisClamped ==
    (Measured /\ group = "Group") =>
        \A i \in 1..Len(children) : \A a \in Axes :
            LET b == 3 - a
                size == ResolvedSize(i)
                remaining == RemainingSpace(i)
                actual == children[i].actual_measurement
            IN  (/\ is_positive(remaining)
                 /\ size[a] > remaining[a]
                 /\ size[b] <= remaining[b])
                    => (actual.size[a] = remaining[a] /\ actual.size[b] = size[b])

\* C22: in Group.measure, when the remaining space after the child's
\* position is not positive on both axes, the child is put flush against the
\* far edge, at parent size - size - (right, bottom margin); if it overflows
\* the parent there (the flush position is negative on an axis), it is put
\* at (left margin, top margin) and its size is clamped to the parent's size
\* on exactly the axes where it exceeds it.
C22_SpaceStarvation ==
    (Measured /\ group = "Group") =>
        \A i \in 1..Len(children) :
            LET size == ResolvedSize(i)
                margin == children[i].preferred_measurement.margin
                actual == children[i].actual_measurement
                flush == subtract(actual_size,
                                  plus(size, <<margin[2], margin[3]>>))
            IN  ~is_positive(RemainingSpace(i)) =>
                    IF flush[1] >= 0 /\ flush[2] >= 0
                    THEN actual.position = flush /\ actual.size = size
                    ELSE /\ actual.position = <<margin[4], margin[1]>>
                         /\ \A a \in Axes :
                                actual.size[a] =
                                    IF size[a] > actual_size[a]
                                    THEN actual_size[a] ELSE size[a]

\* C30: after Group.measure the actual rectangle of every child with
\* non-negative margins lies inside the parent's: on both axes its position
\* is >= 0 and its position + size is <= the parent's actual size.
C30_ChildInsideParent ==
    (Measured /\ group = "Group") =>
        \A i \in 1..Len(children) : \A a \in Axes :
            LET actual == children[i].actual_measurement
            IN  (\A k \in 1..4 : children[i].preferred_measurement.margin[k] >= 0)
                    => /\ actual.position[a] >= 0
                       /\ actual.position[a] + actual.size[a] <= actual_size[a]

-----------------------------------------------------------------------------
(* Claims about a group drawn by redraw_once() *)

\* redraw_once() has returned or raised
Redrawn == pcLayout \in {"redrawn", "redraw_raised"}

\* the children of the group are those of src/main.test.py:13-32
TestChildren ==
    [i \in 1..Len(children) |-> children[i].preferred_measurement]
        = <<Percent, Half, FillWidth>>

\* the size a fraction-sized child of a stack is resolved to
FractionSize(child) ==
    LET f == child.preferred_measurement.size
    IN  IF group = "VGroup"
        THEN <<actual_size[1], (actual_size[2] * f.num) \div f.den>>
        ELSE <<(actual_size[1] * f.num) \div f.den, actual_size[2]>>

\* C23: a child of a VGroup whose preferred size is a fraction f is resolved
\* to (stack width, f * stack height), one of an HGroup to (f * stack width,
\* stack height), and that size is what the clamp to the remaining space is
\* applied to; a stack with the fraction-sized children of src/main.test.py
\* (0.4 and 0.5) on its 800 x 480 canvas is laid out and drawn by
\* redraw_once() without error.
C23_FractionOfStack ==
    (Redrawn /\ group \in {"VGroup", "HGroup"}) =>
        /\ ~content.raised =>
               \A i \in 1..Len(children) : \A a \in Axes :
                   LET child == children[i]
                       margins == MarginsOn(child, a)
                   IN  child.preferred_measurement.size.tag = "float" =>
                           child.actual_measurement.size[a] =
                               IF FractionSize(child)[a] + margins
                                      > RemainingOn(i, a)
                               THEN RemainingOn(i, a) - margins
                               ELSE FractionSize(child)[a]
        /\ (TestChildren /\ canvas_size = <<800, 480>>) => pcLayout = "redrawn"

\* the entry of the child's preferred size on axis a
SizeOn(child, a) ==
    LET size == child.preferred_measurement.size
    IN  IF a = 1 THEN size.w ELSE size.h

\* what the children that are WRAP_CONTENT or numerically sized on axis a
\* contribute there: content size or declared size, plus the two margins
Contributions(a) ==
    { (IF SizeOn(children[i], a) = WRAP_CONTENT
       THEN View_content_size[a]
       ELSE SizeOn(children[i], a).value) + MarginsOn(children[i], a) :
        i \in { j \in 1..Len(children) : SizeOn(children[j], a) # MATCH_PARENT } }

\* C24: Group.content_size() returns on each axis the maximum over the
\* children of contribution + margins (0 when none contributes), a
\* WRAP_CONTENT child contributing its content size and an int- or
\* float-sized child its declared size: the result is never below any
\* child's contribution, whatever the order of the children.
C24_ContentSize ==
    (Redrawn /\ group = "Group" /\ content.called /\ ~content.raised) =>
        \A a \in Axes :
            /\ \A c \in Contributions(a) : content.size[a] >= c
            /\ content.size[a] \in Contributions(a) \cup {0}

-----------------------------------------------------------------------------
(* More claims about ChartsView *)

\* the strip and the body split the extent along axis a between them: one
\* begins at 0, the other where the first ends, and they end at the extent
SplitAlong(strip, body, a, extent) ==
    /\ strip[a + 2] >= 0 /\ body[a + 2] >= 0
    /\ strip[a + 2] + body[a + 2] = extent
    /\ \/ strip[a] = 0 /\ body[a] = strip[a + 2]
       \/ body[a] = 0 /\ strip[a] = body[a + 2]

\* the rectangle spans the extent across axis a
SpansAcross(r, a, extent) == r[3 - a] = 0 /\ r[5 - a] = extent

\* C25: with at most one axis enabled the enabled strip and the body of
\* ChartsView.draw partition the view's rectangle: an x strip spans the
\* whole width, a y strip the whole height, each against its configured edge
\* and of the fixed thickness, the body is the remainder; with no axis
\* enabled the body is the whole rectangle.
C25_SingleAxisLayout ==
    LET cfg == chart_configuration
        xa == chart_axis.x_axis
        ya == chart_axis.y_axis
        bb == chart_axis.body_bounds
    IN  (pcChart = "drawn" /\ ~(cfg.x_axis.enabled /\ cfg.y_axis.enabled)) =>
            IF cfg.x_axis.enabled
            THEN /\ SpansAcross(xa, 2, chart_size[1])
                 /\ SpansAcross(bb, 2, chart_size[1])
                 /\ xa[4] = x_axis_size * chart_scale
                 /\ SplitAlong(xa, bb, 2, chart_size[2])
                 /\ cfg.x_axis.position = "TOP" => xa[2] = 0
                 /\ cfg.x_axis.position = "BOTTOM"
                        => xa[2] + xa[4] = chart_size[2]
            ELSE IF cfg.y_axis.enabled
            THEN /\ SpansAcross(ya, 1, chart_size[2])
                 /\ SpansAcross(bb, 1, chart_size[2])
                 /\ ya[3] = y_axis_size * chart_scale
                 /\ SplitAlong(ya, bb, 1, chart_size[1])
                 /\ cfg.y_axis.position = "LEFT" => ya[1] = 0
                 /\ cfg.y_axis.position = "RIGHT"
                        => ya[1] + ya[3] = chart_size[1]
            ELSE bb = <<0, 0, chart_size[1], chart_size[2]>>

-----------------------------------------------------------------------------
(* More claims about TrendChartsView *)

\* the values of column c of the current series
Column(c) == { trend_data.pts[i][c] : i \in 1..Len(trend_data.pts) }

\* lo and hi are the least and the greatest of the values S
ExactRange(lo, hi, S) ==
    /\ lo \in S /\ hi \in S
    /\ \A v \in S : lo <= v /\ v <= hi

\* C26: after every body draw of a non-empty series, whatever set_data()
\* calls and draws went before, the y axis [min, max] is the exact range of
\* the dependent values of the current series and, for a numeric series,
\* the x axis [min, max] the exact range of its independent values, also
\* when the dependent values are all equal.
C26_AxisRange ==
    DrawnSeries =>
        /\ ExactRange(axis_range.y_min, axis_range.y_max, Column(2))
        /\ trend_data.kind = "numeric" =>
               ExactRange(axis_range.x_min, axis_range.x_max, Column(1))


\* child i's buffer has a pixel that is not the transparency sentinel at the
\* parent's pixel d
Paints(i, d) ==
    LET m == children[i].actual_measurement
    IN  /\ children[i].fill # COLOR_TRANSPARENT
        /\ m.position[1] <= d[1] /\ d[1] < m.position[1] + m.size[1]
        /\ m.position[2] <= d[2] /\ d[2] < m.position[2] + m.size[2]

\* the last-inserted child painting the parent's pixel d
LastPainting(d) ==
    CHOOSE i \in 1..Len(children) :
        Paints(i, d) /\ \A j \in (i + 1)..Len(children) : ~Paints(j, d)

(* C27: once a Group has drawn its children (those added since the last
   clear()), every child was buffered, and each pixel of the parent where two
   children overlap is that of the last-inserted child whose buffer pixel
   there is not the transparency sentinel. *)
C27_InsertionOrder ==
    pcLayout = "drawn" /\ background0 = Image_new(actual_size, 255) =>
        /\ draws = Len(children)
        /\ \A d \in DOMAIN background.px :
               (\E i, j \in 1..Len(children) :
                    i < j /\ Paints(i, d) /\ Paints(j, d))
                   => background.px[d] = children[LastPainting(d)].fill

\* two children of different colours overlap and the pixel is the later one's
C27_Witness ==
    /\ pcLayout = "drawn" /\ background0 = Image_new(actual_size, 255)
    /\ Len(children) = 2
    /\ \E d \in DOMAIN background.px :
           /\ Paints(1, d) /\ Paints(2, d)
           /\ children[1].fill # children[2].fill
           /\ background.px[d] = children[2].fill

-----------------------------------------------------------------------------
(* Claims about invalidations and failed redraws *)

(* C28 as stated: once the calls of request_redraw() so far have completed
   with the counter not zero while the loop is running, then, unless a
   further call begins, destroy() makes the loop exit or a redraw raises, the
   loop comes to invoke redraw_once() (line 57) with all of them begun. *)
C28_AsStated ==
    \A n \in 1..MaxCalls :
        (calls = n /\ AllIdle /\ requests > 0 /\ status = "RUNNING") ~>
            \/ pcLoop = "L57" /\ calls = n
            \/ calls > n
            \/ pcLoop = "exited"
            \/ exc = "draw_error"

(* C28, amended: no invalidation is lost while the loop thread lives.  Only
   the loop's reset (line 56), which line 57 follows, takes the counter back
   to zero; once the calls of request_redraw() so far have completed and the
   counter is not zero while the loop is running, then, unless a further call
   begins or the loop thread ends (by destroy() or by an exception with no
   panic handler), the loop comes to invoke redraw_once() (line 57) with all
   of them begun; and a redraw_once() the loop invokes returns unless it
   raises. *)
C28_NoInvalidationLost ==
    /\ [][(requests > 0 /\ requests' = 0)
             => (pcLoop = "L56" /\ pcLoop' = "L57")]_vars
    /\ \A n \in 1..MaxCalls :
           (calls = n /\ AllIdle /\ requests > 0 /\ status = "RUNNING") ~>
               \/ pcLoop = "L57" /\ calls = n
               \/ calls > n
               \/ LoopEnded
    /\ (pcLoop \in {"L57", "drawing"}) ~>
           (pcLoop = "L58" \/ exc = "draw_error")

\* a redraw has returned that the loop began after every call had completed,
\* one of them made after the poll of the cycle or by a racing thread
C28_Witness ==
    /\ pcLoop = "L58"
    /\ status = "RUNNING"
    /\ AllIdle
    /\ calls >= 2
    /\ requests = 0
    /\ current_requests < calls

(* C29: the loop resets the counter to zero and only then calls
   redraw_once(); a redraw_once() that raises leaves the counter as it is,
   and with a panic handler registered the loop goes from the handler to its
   while condition without firing the redraw listener and without a redraw.
   A redraw is only reached through a poll that finds the counter above zero
   and a re-check that finds it unchanged, and only a store of
   request_redraw() takes the counter from zero. *)
C29_FailedRedrawNotRetried ==
    [][/\ (pcLoop = "L56" /\ pcLoop' # "L56")
            => (requests' = 0 /\ pcLoop' = "L57")
       /\ (pcLoop = "L57" /\ pcLoop' # "L57")
            => (pcLoop' = "drawing" /\ requests' = requests)
       /\ (pcLoop = "drawing" /\ pcLoop' = "L62")
            => (exc' = "draw_error" /\ requests' = requests)
       /\ (pcLoop = "L62" /\ pcLoop' # "L62" /\ panic_handler)
            => (pcLoop' = "L63" /\ requests' = requests)
       /\ (pcLoop = "L63" /\ pcLoop' # "L63")
            => (pcLoop' = "L50" /\ requests' = requests)
       /\ (pcLoop' = "L57" /\ pcLoop # "L57") => pcLoop = "L56"
       /\ (pcLoop' = "L56" /\ pcLoop # "L56")
            => (pcLoop = "L54" /\ current_requests = requests)
       /\ (pcLoop' = "L54" /\ pcLoop # "L54")
            => (pcLoop = "L52" /\ requests > 0)
       /\ (pcLoop' = "L58" /\ pcLoop # "L58") => pcLoop = "drawing"
       /\ (requests = 0 /\ requests' > 0)
            => \E t \in Requesters : pcReq[t] = "loaded" /\ pcReq'[t] = "idle"]_vars

\* the only call was answered by a redraw that raised; the handler was given
\* the exception, and the next poll found the counter at zero: no retry
C29_Witness ==
    /\ pcLoop = "L60"
    /\ status = "RUNNING"
    /\ handler_arg = "draw_error"
    /\ exc = "none"
    /\ calls = 1
    /\ AllIdle
    /\ requests = 0
    /\ current_requests = 0

=============================================================================
